---- MODULE Spec2Model ----
(***************************************************************************)
(* junit-airgap native JVMTI agent: the load/unload entry points, the      *)
(* VM-init and native-method-bind callbacks, the registration call of the  *)
(* managed policy class, and the DNS and connect wrappers.                 *)
(*                                                                         *)
(* Pointers, global references and method ids are integers, 0 is nullptr.  *)
(* jstring handles are strings, NullStr is the null jstring.               *)
(***************************************************************************)
EXTENDS Integers, Sequences, FiniteSets, TLC

(* ---- bounds of the model ---- *)
MaxRegister == 2
MaxBind == 2
MaxVMInit == 1

(* ---- program constants ---- *)
JNI_OK == "JNI_OK"
JNI_ERR == "JNI_ERR"
ConnectError == 0 - 2
DnsPort == 0 - 1
VMInitMaxAttempts == 50
EnsureMaxAttempts == 100

NullStr == ""
Threads == {"w1"}
Addresses == {0, 1, 2}
Ports == {443}
ConnectResults == {0, 0 - 1}
LookupResults == {7}

(* identifiers the policy decides on: the literal IP and the host name *)
IpId == "10.0.0.1"
HostId == "host.example"
Ids == {IpId, HostId}

(* the method ids GetStaticMethodID hands out *)
CheckConnectionId == 1
IsExplicitlyBlockedId == 2
HasActiveConfigurationId == 3

KeyNetConnect0 == "sun.nio.ch.Net.connect0"
KeySocketConnect0 == "java.net.Socket.socketConnect0"
KeyChannelConnect0 == "sun.nio.ch.SocketChannelImpl.connect0"
KeyInet6 == "java.net.Inet6AddressImpl.lookupAllHostAddr"
KeyInet4 == "java.net.Inet4AddressImpl.lookupAllHostAddr"
Keys == {KeyNetConnect0, KeySocketConnect0, KeyChannelConnect0, KeyInet6, KeyInet4}

VARIABLES
    g_jvm, g_jvmti,                 \* TRUE when the handle is non-null
    agent,                          \* JVMTI side of the load: callbacks, enabled events, result
    g_original_functions,           \* Keys -> address, 0 when the key is not in the map
    original_Net_connect0,          \* static of socket_interceptor.cpp
    original_Inet6_lookupAllHostAddr,
    original_Inet4_lookupAllHostAddr,
    installed,                      \* keys whose binding the runtime replaced by a wrapper
    binds,                          \* bind events delivered so far
    bind,                           \* the JVM's view of the bind events, when it is traced
    g_network_blocker_context_class,
    g_check_connection_method,
    g_is_explicitly_blocked_method,
    g_has_active_configuration_method,
    g_caller_agent_string, g_caller_dns_string,
    g_vm_init_complete,
    g_context_mutex, g_strings_mutex,   \* the holder, or "free"
    classRefs, nextRef,             \* live global references to the policy class
    stringRefs,                     \* live global references to the caller strings
    reg,                            \* the thread running registerWithAgent
    vm,                             \* the thread running VMInitCallback
    pc, loc,                        \* wrapper threads: position and locals
    url                             \* the URL protocol: configuration, request, decision

agentVars == <<g_jvm, g_jvmti, agent, url>>
registryVars == <<g_original_functions, original_Net_connect0,
                  original_Inet6_lookupAllHostAddr, original_Inet4_lookupAllHostAddr,
                  installed, binds, bind>>
classVars == <<g_network_blocker_context_class, classRefs, nextRef>>
methodVars == <<g_check_connection_method, g_is_explicitly_blocked_method,
                g_has_active_configuration_method>>
stringVars == <<g_caller_agent_string, g_caller_dns_string, stringRefs>>
wrapperVars == <<pc, loc>>
vars == <<agentVars, registryVars, classVars, methodVars, stringVars, g_vm_init_complete,
          g_context_mutex, g_strings_mutex, reg, vm, wrapperVars>>

(* ---- the managed policy object ---- *)
(* active: a configuration is set; blocked: the explicit block list;       *)
(* denied: the identifiers checkConnection raises a violation for.  Every  *)
(* call into the policy reads the policy as it is at that moment.          *)
Policies == { p \in [active : BOOLEAN, blocked : SUBSET Ids, denied : SUBSET Ids] :
                /\ p.blocked \subseteq p.denied
                /\ (~p.active => p.denied = {}) }

hasActiveConfiguration(p) == p.active
isExplicitlyBlocked(p, host) == p.active /\ host \in p.blocked
\* TRUE when checkConnection raises the violation
checkConnection(p, host) == p.active /\ host \in p.denied

NoException == [type |-> "none", host |-> NullStr, port |-> 0]

\* outcome: how the last call returned; registered: calls that returned with
\* every handle resolved; failed: some call returned early
IdleReg == [pc |-> "idle", exc |-> "none", outcome |-> "none", registered |-> 0,
            failed |-> FALSE]
IdleVm == [pc |-> "idle", encoding_ready |-> FALSE, attempts |-> 0, probes |-> 0, runs |-> 0]
\* the locals of one wrapper invocation, and what it has done so far:
\* calls are the calls into managed policy code, forwarded the calls of the
\* original function, held the native string handles not yet released
IdleLoc == [kind |-> "none", hostname |-> NullStr, remote |-> FALSE, port |-> 0,
            original |-> 0, ready |-> FALSE,
            contextClass |-> 0, innerContextClass |-> 0, hasActiveConfigMethod |-> 0,
            checkConnectionMethod |-> 0, isExplicitlyBlockedMethod |-> 0,
            callerString |-> NullStr,
            hostNameString |-> NullStr, hostAddressString |-> NullStr,
            held |-> {}, released |-> <<>>,
            hostnameExplicitlyBlocked |-> FALSE, ipExplicitlyBlocked |-> FALSE,
            connectionBlocked |-> FALSE,
            exception |-> NoException, calls |-> <<>>, forwarded |-> <<>>,
            probes |-> 0, encoding_ready |-> "unprobed",
            test_string |-> NullStr, firstOk |-> 0, failKind |-> "silent",
            getHostNameCalled |-> FALSE, result |-> 0]

(* ---- AirgapURLProtocol: the configuration and its block decision ---- *)
\* host names and host patterns as label sequences; "*" is the wildcard label
UrlHosts == { <<"example", "com">>, <<"api", "example", "com">>,
              <<"x", "y", "example", "com">>, <<"evil", "com">> }
UrlPatterns == { <<"api", "example", "com">>, <<"*", "example", "com">>, <<"evil", "com">> }
UrlConfigurations ==
    [blockByDefault : BOOLEAN, allowedHosts : SUBSET UrlPatterns, blockedHosts : SUBSET UrlPatterns]

\* *.example.com matches api.example.com and x.y.example.com, not example.com
HostMatches(pattern, host) ==
    IF pattern[1] = "*"
    THEN /\ Len(host) > Len(pattern) - 1
         /\ SubSeq(host, Len(host) - Len(pattern) + 2, Len(host)) = SubSeq(pattern, 2, Len(pattern))
    ELSE pattern = host

MatchesAny(patterns, host) == \E pattern \in patterns : HostMatches(pattern, host)

\* a decision that consults the allow list before the block list
ShouldBlockHostAllowFirst(config, host) ==
    IF MatchesAny(config.allowedHosts, host) THEN FALSE
    ELSE IF MatchesAny(config.blockedHosts, host) THEN TRUE
    ELSE config.blockByDefault
\* block list first, then allow list, then the default
ShouldBlockHost(config, host) ==
    IF MatchesAny(config.blockedHosts, host) THEN TRUE
    ELSE IF MatchesAny(config.allowedHosts, host) THEN FALSE
    ELSE config.blockByDefault

NoRequest == [configured |-> FALSE,
              config |-> [blockByDefault |-> FALSE, allowedHosts |-> {}, blockedHosts |-> {}],
              host |-> <<>>, decision |-> "none"]

\* the bind events and what each returned to the JVM; recorded only when observed
NoBindTrace == [observed |-> FALSE, events |-> <<>>]

Init ==
    /\ g_jvm = FALSE /\ g_jvmti = FALSE
    /\ url = NoRequest
    /\ agent = [loaded |-> FALSE, result |-> JNI_OK, capability |-> FALSE,
                callbacks |-> FALSE, bindEvents |-> FALSE, vmInitEvents |-> FALSE,
                unloaded |-> FALSE]
    /\ g_original_functions = [k \in Keys |-> 0]
    /\ original_Net_connect0 = 0
    /\ original_Inet6_lookupAllHostAddr = 0
    /\ original_Inet4_lookupAllHostAddr = 0
    /\ installed = {}
    /\ binds = 0
    /\ bind = NoBindTrace
    /\ g_network_blocker_context_class = 0
    /\ g_check_connection_method = 0
    /\ g_is_explicitly_blocked_method = 0
    /\ g_has_active_configuration_method = 0
    /\ g_caller_agent_string = NullStr /\ g_caller_dns_string = NullStr
    /\ g_vm_init_complete = FALSE
    /\ g_context_mutex = "free" /\ g_strings_mutex = "free"
    /\ classRefs = {} /\ nextRef = 1
    /\ stringRefs = {}
    /\ reg = IdleReg
    /\ vm = IdleVm
    /\ pc = [t \in Threads |-> "idle"]
    /\ loc = [t \in Threads |-> IdleLoc]

(* ---- Agent_OnLoad / InitializeJVMTI ---- *)
\* failAt: 0 GetEnv fails, 1 AddCapabilities, 2 SetEventCallbacks,
\* 3 enabling the bind events, 4 enabling the VM_INIT event, 5 nothing fails
InitializeJVMTI(failAt) ==
    [loaded |-> TRUE,
     result |-> IF failAt = 5 THEN JNI_OK ELSE JNI_ERR,
     capability |-> failAt > 1,
     callbacks |-> failAt > 2,
     bindEvents |-> failAt > 3,
     vmInitEvents |-> failAt > 4,
     unloaded |-> FALSE]

Agent_OnLoad ==
    /\ ~agent.loaded
    /\ \E failAt \in 0..5 :
        /\ g_jvm' = TRUE
        /\ UNCHANGED url
        /\ g_jvmti' = (failAt > 0)
        /\ agent' = InitializeJVMTI(failAt)
    /\ UNCHANGED <<registryVars, classVars, methodVars, stringVars, g_vm_init_complete,
                   g_context_mutex, g_strings_mutex, reg, vm, wrapperVars>>

(* ---- registerWithAgent (agent.cpp 649-728) ---- *)
\* the lock_guard is taken on entry and dropped at every return
registerWithAgent_Enter ==
    /\ agent.loaded
    /\ reg.pc = "idle"
    /\ nextRef <= MaxRegister
    /\ g_context_mutex = "free"
    /\ g_context_mutex' = "reg"
    /\ reg' = [reg EXCEPT !.pc = "newref", !.outcome = "running", !.exc = "none"]
    /\ UNCHANGED <<agentVars, registryVars, classVars, methodVars, stringVars,
                   g_vm_init_complete, g_strings_mutex, vm, wrapperVars>>

\* g_network_blocker_context_class = NewGlobalRef(clazz); the previous value is overwritten
registerWithAgent_NewGlobalRef ==
    /\ reg.pc = "newref"
    /\ \E ok \in BOOLEAN :
        IF ok
        THEN /\ g_network_blocker_context_class' = nextRef
             /\ classRefs' = classRefs \cup {nextRef}
             /\ nextRef' = nextRef + 1
             /\ reg' = [reg EXCEPT !.pc = "check"]
             /\ UNCHANGED g_context_mutex
        ELSE /\ g_network_blocker_context_class' = 0
             /\ reg' = [reg EXCEPT !.pc = "idle", !.outcome = "fail_ref", !.failed = TRUE]
             /\ g_context_mutex' = "free"
             /\ UNCHANGED <<classRefs, nextRef>>
    /\ UNCHANGED <<agentVars, registryVars, methodVars, stringVars, g_vm_init_complete,
                   g_strings_mutex, vm, wrapperVars>>

\* the pending exception after a failed GetStaticMethodID and the
\* if (ExceptionCheck()) { ExceptionDescribe(); ExceptionClear(); } that follows
ExceptionAfterFailedLookupKept(pending) == pending
ExceptionAfterFailedLookup(pending) == "none"

\* env->DeleteGlobalRef(g_network_blocker_context_class)
DeleteGlobalRef(refs, ref) == refs \ {ref}

\* GetStaticMethodID for "checkConnection"; on failure the class is released and cleared
registerWithAgent_CheckConnection ==
    /\ reg.pc = "check"
    /\ \E ok \in BOOLEAN :
        IF ok
        THEN /\ g_check_connection_method' = CheckConnectionId
             /\ reg' = [reg EXCEPT !.pc = "blocked"]
             /\ UNCHANGED <<g_network_blocker_context_class, classRefs, g_context_mutex>>
        ELSE /\ g_check_connection_method' = 0
             /\ classRefs' = DeleteGlobalRef(classRefs, g_network_blocker_context_class)
             /\ g_network_blocker_context_class' = 0
             /\ reg' = [reg EXCEPT !.pc = "idle", !.outcome = "fail_check", !.failed = TRUE,
                                   !.exc = ExceptionAfterFailedLookup("NoSuchMethodError")]
             /\ g_context_mutex' = "free"
    /\ UNCHANGED <<agentVars, registryVars, g_is_explicitly_blocked_method,
                   g_has_active_configuration_method, stringVars, g_vm_init_complete,
                   g_strings_mutex, nextRef, vm, wrapperVars>>

\* GetStaticMethodID for "isExplicitlyBlocked"
registerWithAgent_IsExplicitlyBlocked ==
    /\ reg.pc = "blocked"
    /\ \E ok \in BOOLEAN :
        IF ok
        THEN /\ g_is_explicitly_blocked_method' = IsExplicitlyBlockedId
             /\ reg' = [reg EXCEPT !.pc = "active"]
             /\ UNCHANGED <<g_network_blocker_context_class, g_check_connection_method,
                            classRefs, g_context_mutex>>
        ELSE /\ g_is_explicitly_blocked_method' = 0
             /\ classRefs' = DeleteGlobalRef(classRefs, g_network_blocker_context_class)
             /\ g_network_blocker_context_class' = 0
             /\ g_check_connection_method' = 0
             /\ reg' = [reg EXCEPT !.pc = "idle", !.outcome = "fail_blocked", !.failed = TRUE,
                                   !.exc = ExceptionAfterFailedLookup("NoSuchMethodError")]
             /\ g_context_mutex' = "free"
    /\ UNCHANGED <<agentVars, registryVars, g_has_active_configuration_method, stringVars,
                   g_vm_init_complete, g_strings_mutex, nextRef, vm, wrapperVars>>

\* GetStaticMethodID for "hasActiveConfiguration"; the last step of the registration
registerWithAgent_HasActiveConfiguration ==
    /\ reg.pc = "active"
    /\ \E ok \in BOOLEAN :
        IF ok
        THEN /\ g_has_active_configuration_method' = HasActiveConfigurationId
             /\ reg' = [reg EXCEPT !.pc = "idle", !.outcome = "ok", !.registered = @ + 1]
             /\ UNCHANGED <<g_network_blocker_context_class, g_check_connection_method,
                            g_is_explicitly_blocked_method, classRefs>>
        ELSE /\ g_has_active_configuration_method' = 0
             /\ classRefs' = DeleteGlobalRef(classRefs, g_network_blocker_context_class)
             /\ g_network_blocker_context_class' = 0
             /\ g_check_connection_method' = 0
             /\ g_is_explicitly_blocked_method' = 0
             /\ reg' = [reg EXCEPT !.pc = "idle", !.outcome = "fail_active", !.failed = TRUE,
                                   !.exc = ExceptionAfterFailedLookup("NoSuchMethodError")]
    /\ g_context_mutex' = "free"
    /\ UNCHANGED <<agentVars, registryVars, stringVars, g_vm_init_complete,
                   g_strings_mutex, nextRef, vm, wrapperVars>>

(* ---- Agent_OnUnload (agent.cpp 501-515) ---- *)
\* an unload that also clears the readiness flag
Agent_OnUnloadResetsFlag ==
    /\ agent.loaded
    /\ ~agent.unloaded
    /\ \E envOk \in BOOLEAN :
        IF g_network_blocker_context_class # 0 /\ g_jvm /\ envOk
        THEN /\ classRefs' = DeleteGlobalRef(classRefs, g_network_blocker_context_class)
             /\ g_network_blocker_context_class' = 0
        ELSE UNCHANGED <<g_network_blocker_context_class, classRefs>>
    /\ g_jvmti' = FALSE
    /\ g_jvm' = FALSE
    /\ UNCHANGED url
    /\ agent' = [agent EXCEPT !.unloaded = TRUE]
    /\ g_vm_init_complete' = FALSE
    /\ UNCHANGED <<registryVars, methodVars, stringVars,
                   g_context_mutex, g_strings_mutex, nextRef, reg, vm, wrapperVars>>

\* takes no lock; envOk: GetJNIEnv() returned an environment
Agent_OnUnload ==
    /\ agent.loaded
    /\ ~agent.unloaded
    /\ \E envOk \in BOOLEAN :
        IF g_network_blocker_context_class # 0 /\ g_jvm /\ envOk
        THEN /\ classRefs' = DeleteGlobalRef(classRefs, g_network_blocker_context_class)
             /\ g_network_blocker_context_class' = 0
        ELSE UNCHANGED <<g_network_blocker_context_class, classRefs>>
    /\ g_jvmti' = FALSE
    /\ g_jvm' = FALSE
    /\ UNCHANGED url
    /\ agent' = [agent EXCEPT !.unloaded = TRUE]
    /\ UNCHANGED <<registryVars, methodVars, stringVars, g_vm_init_complete,
                   g_context_mutex, g_strings_mutex, nextRef, reg, vm, wrapperVars>>

(* ---- VMInitCallback (agent.cpp 204-305) ---- *)
\* the lock_guard on g_strings_mutex is held from entry to return
VMInitCallback_Enter ==
    /\ agent.callbacks /\ agent.vmInitEvents
    /\ ~agent.unloaded    \* the JVM delivers no event to an unloaded agent
    /\ vm.pc = "idle"
    /\ vm.runs < MaxVMInit
    /\ g_strings_mutex = "free"
    /\ g_strings_mutex' = "vm"
    /\ vm' = [vm EXCEPT !.pc = "strings", !.runs = @ + 1]
    /\ UNCHANGED <<agentVars, registryVars, classVars, methodVars, stringVars,
                   g_vm_init_complete, g_context_mutex, reg, wrapperVars>>

\* a caller string is created only when it is still null; NewStringUTF or
\* NewGlobalRef may fail and leave it null
NewCallerString(current, text, ok) ==
    IF current # NullStr THEN current ELSE IF ok THEN text ELSE NullStr

VMInitCallback_Strings ==
    /\ vm.pc = "strings"
    /\ \E okAgent \in BOOLEAN, okDns \in BOOLEAN :
        /\ g_caller_agent_string' = NewCallerString(g_caller_agent_string, "Native-Agent", okAgent)
        /\ g_caller_dns_string' = NewCallerString(g_caller_dns_string, "Native-DNS", okDns)
        /\ stringRefs' = {g_caller_agent_string', g_caller_dns_string'} \ {NullStr}
    /\ vm' = [vm EXCEPT !.pc = "probe"]
    /\ UNCHANGED <<agentVars, registryVars, classVars, methodVars, g_vm_init_complete,
                   g_context_mutex, g_strings_mutex, reg, wrapperVars>>

\* for (attempt = 0; attempt < max_attempts && !encoding_ready; attempt++):
\* GetStringUTFChars succeeds from attempt firstOk on; the loop's result from
\* the given attempt: a null string is never probed, a failed probe is
\* retried until the attempt that succeeds or until max_attempts
VMInitProbeLoop(attempt, probes, firstOk, str) ==
    IF attempt >= VMInitMaxAttempts
    THEN [encoding_ready |-> FALSE, attempts |-> attempt, probes |-> probes]
    ELSE IF str = NullStr
         THEN [encoding_ready |-> FALSE, attempts |-> VMInitMaxAttempts, probes |-> probes]
         ELSE IF attempt >= firstOk
              THEN [encoding_ready |-> TRUE, attempts |-> attempt + 1, probes |-> probes + 1]
              ELSE IF firstOk < VMInitMaxAttempts
                   THEN [encoding_ready |-> TRUE, attempts |-> firstOk + 1,
                         probes |-> probes + (firstOk - attempt) + 1]
                   ELSE [encoding_ready |-> FALSE, attempts |-> VMInitMaxAttempts,
                         probes |-> probes + (VMInitMaxAttempts - attempt)]

\* the attempts at which the platform encoding can become ready
ProbeOracle(max) == {0, 1, max - 1, max}

\* the probe loop reads g_caller_agent_string directly, under the lock the
\* callback already holds; the first variant fetches it through
\* GetCallerAgentString(), which takes g_strings_mutex again
VMInitCallback_ProbeViaAccessor ==
    /\ vm.pc = "probe"
    /\ g_strings_mutex = "free"
    /\ \E firstOk \in ProbeOracle(VMInitMaxAttempts) :
        LET r == VMInitProbeLoop(0, 0, firstOk, g_caller_agent_string)
        IN  vm' = [vm EXCEPT !.pc = "setflag", !.encoding_ready = r.encoding_ready,
                             !.attempts = r.attempts, !.probes = r.probes]
    /\ UNCHANGED <<agentVars, registryVars, classVars, methodVars, stringVars,
                   g_vm_init_complete, g_context_mutex, g_strings_mutex, reg, wrapperVars>>
VMInitCallback_Probe ==
    /\ vm.pc = "probe"
    /\ \E firstOk \in ProbeOracle(VMInitMaxAttempts) :
        LET r == VMInitProbeLoop(0, 0, firstOk, g_caller_agent_string)
        IN  vm' = [vm EXCEPT !.pc = "setflag", !.encoding_ready = r.encoding_ready,
                             !.attempts = r.attempts, !.probes = r.probes]
    /\ UNCHANGED <<agentVars, registryVars, classVars, methodVars, stringVars,
                   g_vm_init_complete, g_context_mutex, g_strings_mutex, reg, wrapperVars>>

\* g_vm_init_complete = true, whatever the probe loop found; the first variant
\* sets it only when a probe succeeded
VMInitCallback_SetFlagWhenReady ==
    /\ vm.pc = "setflag"
    /\ g_vm_init_complete' = (g_vm_init_complete \/ vm.encoding_ready)
    /\ vm' = [vm EXCEPT !.pc = "check"]
    /\ UNCHANGED <<agentVars, registryVars, classVars, methodVars, stringVars,
                   g_context_mutex, g_strings_mutex, reg, wrapperVars>>
VMInitCallback_SetFlag ==
    /\ vm.pc = "setflag"
    /\ g_vm_init_complete' = TRUE
    /\ vm' = [vm EXCEPT !.pc = "check"]
    /\ UNCHANGED <<agentVars, registryVars, classVars, methodVars, stringVars,
                   g_context_mutex, g_strings_mutex, reg, wrapperVars>>

\* the two GetOriginalFunction lookups are only logged; the callback returns
VMInitCallback_Return ==
    /\ vm.pc = "check"
    /\ g_strings_mutex' = "free"
    /\ vm' = [IdleVm EXCEPT !.runs = vm.runs]
    /\ UNCHANGED <<agentVars, registryVars, classVars, methodVars, stringVars,
                   g_vm_init_complete, g_context_mutex, reg, wrapperVars>>

(* ---- NativeMethodBindCallback (agent.cpp 320-442) ---- *)
SigConnect == "(ZLjava/io/FileDescriptor;Ljava/net/InetAddress;I)I"
SigLookup == "(Ljava/lang/String;)[Ljava/net/InetAddress;"
Methods ==
    { <<"Lsun/nio/ch/Net;", "connect0", SigConnect>>,
      <<"Ljava/net/Socket;", "socketConnect0", SigConnect>>,
      <<"Lsun/nio/ch/SocketChannelImpl;", "connect0", SigConnect>>,
      <<"Ljava/net/Inet6AddressImpl;", "lookupAllHostAddr", SigLookup>>,
      <<"Ljava/net/Inet4AddressImpl;", "lookupAllHostAddr", SigLookup>>,
      <<"Lsun/nio/ch/Net;", "connect0", "(Ljava/io/FileDescriptor;[B)I">>,
      <<"Lsun/nio/ch/Net;", "bind0", SigConnect>>,
      <<"Ljava/lang/Object;", "hashCode", "()I">> }

\* the methods the strcmp chain names, with the shape their wrappers are typed for
TargetDescriptors ==
    { <<"Lsun/nio/ch/Net;", "connect0", SigConnect>>,
      <<"Ljava/net/Socket;", "socketConnect0", SigConnect>>,
      <<"Lsun/nio/ch/SocketChannelImpl;", "connect0", SigConnect>>,
      <<"Ljava/net/Inet6AddressImpl;", "lookupAllHostAddr", SigLookup>>,
      <<"Ljava/net/Inet4AddressImpl;", "lookupAllHostAddr", SigLookup>> }

\* the strcmp chain: the key the method is stored under, "" when no branch matches
TargetKey(class_signature, method_name) ==
    IF class_signature = "Lsun/nio/ch/Net;" /\ method_name = "connect0"
    THEN KeyNetConnect0
    ELSE IF class_signature = "Ljava/net/Socket;" /\ method_name = "socketConnect0"
    THEN KeySocketConnect0
    ELSE IF class_signature = "Lsun/nio/ch/SocketChannelImpl;" /\ method_name = "connect0"
    THEN KeyChannelConnect0
    ELSE IF class_signature = "Ljava/net/Inet6AddressImpl;" /\ method_name = "lookupAllHostAddr"
    THEN KeyInet6
    ELSE IF class_signature = "Ljava/net/Inet4AddressImpl;" /\ method_name = "lookupAllHostAddr"
    THEN KeyInet4
    ELSE ""

\* the branches that call Install...Wrapper and write *new_address_ptr
WrappedKeys == {KeyNetConnect0, KeyInet6, KeyInet4}

\* an insert that keeps the pointer already stored under the key
StoreOriginalFunctionFirstWins(map, key, address) ==
    IF map[key] # 0 THEN map ELSE [map EXCEPT ![key] = address]
\* g_original_functions[key] = address
StoreOriginalFunction(map, key, address) == [map EXCEPT ![key] = address]

\* find(key): the stored pointer, nullptr (0) when the key is not in the map
GetOriginalFunction(map, key) == IF key \in DOMAIN map THEN map[key] ELSE 0

\* Install...Wrapper returns the wrapper's entry point, written to *new_address_ptr;
\* "" when the branch writes nothing
InstallWrapper(key) ==
    IF key = KeyNetConnect0 THEN "wrapped_Net_connect0"
    ELSE IF key = KeyInet6 THEN "wrapped_Inet6_lookupAllHostAddr"
    ELSE IF key = KeyInet4 THEN "wrapped_Inet4_lookupAllHostAddr"
    ELSE ""

\* lookup: which of GetMethodName, GetMethodDeclaringClass, GetClassSignature fails
NativeMethodBindCallback ==
    /\ agent.callbacks /\ agent.bindEvents
    /\ ~agent.unloaded    \* the JVM delivers no event to an unloaded agent
    /\ binds < MaxBind
    /\ binds' = binds + 1
    /\ \E m \in Methods, address \in Addresses, lookup \in {"ok", "name", "class", "signature"} :
        LET key == TargetKey(m[1], m[2])
            event == [method |-> m, address |-> address, lookup |-> lookup,
                      stored |-> IF lookup = "ok" THEN key ELSE "",
                      new_address |-> IF lookup = "ok" /\ key \in WrappedKeys
                                      THEN InstallWrapper(key) ELSE ""]
        IN  /\ bind' = IF bind.observed THEN [bind EXCEPT !.events = Append(@, event)] ELSE bind
            /\ IF lookup # "ok" \/ key = ""
               THEN UNCHANGED <<g_original_functions, original_Net_connect0,
                                original_Inet6_lookupAllHostAddr,
                                original_Inet4_lookupAllHostAddr, installed>>
               ELSE /\ g_original_functions' = StoreOriginalFunction(g_original_functions, key, address)
                    /\ original_Net_connect0' =
                           IF key = KeyNetConnect0 THEN address ELSE original_Net_connect0
                    /\ original_Inet6_lookupAllHostAddr' =
                           IF key = KeyInet6 THEN address ELSE original_Inet6_lookupAllHostAddr
                    /\ original_Inet4_lookupAllHostAddr' =
                           IF key = KeyInet4 THEN address ELSE original_Inet4_lookupAllHostAddr
                    /\ installed' = IF key \in WrappedKeys THEN installed \cup {key} ELSE installed
    /\ UNCHANGED <<agentVars, classVars, methodVars, stringVars, g_vm_init_complete,
                   g_context_mutex, g_strings_mutex, reg, vm, wrapperVars>>

(* ---- what the wrappers share ---- *)
\* a call into managed policy code, as the policy side observes it
PolicyCall(l, class, method, host, port, result) ==
    [l EXCEPT !.calls = Append(@, [method |-> method, class |-> class,
                                   host |-> host, port |-> port,
                                   caller |-> l.callerString, result |-> result])]

\* original(env, ..., args) and return its result r; missing is the
\* outcome of the branch taken when the original pointer is null
CallOriginal(l, address, args, r, missing) ==
    IF address # 0
    THEN [l EXCEPT !.forwarded = Append(@, [address |-> address, args |-> args,
                                             held |-> l.held, result |-> r]),
                   !.result = r]
    ELSE missing

\* env->ReleaseStringUTFChars for each handle of hs that is held
ReleaseStringUTFChars(l, hs) ==
    [l EXCEPT !.held = @ \ hs,
              !.released = @ \o (IF "hostname" \in hs \cap l.held THEN <<"hostname">> ELSE <<>>)
                             \o (IF "hostAddress" \in hs \cap l.held THEN <<"hostAddress">> ELSE <<>>)]

Violation(host, port) == [type |-> "NetworkRequestAttemptedException", host |-> host, port |-> port]
InternalError == [type |-> "InternalError", host |-> NullStr, port |-> 0]
OtherError == [type |-> "OtherError", host |-> NullStr, port |-> 0]
UnsupportedOperation == [type |-> "UnsupportedOperationException", host |-> NullStr, port |-> 0]

\* Check 1 of both wrappers: if (!g_vm_init_complete) forward unintercepted
VMInitNotCompleteIgnored(flag) == FALSE
VMInitNotComplete(flag) == ~flag

\* Check 3 of both wrappers: if (!hasConfig) forward without any check
NoActiveConfigurationIgnored(hasConfig) == FALSE
NoActiveConfiguration(hasConfig) == ~hasConfig

(* ---- EnsurePlatformEncodingReady (agent.cpp 590-634) ---- *)
\* GetStringUTFChars succeeds from attempt firstOk on; before that it fails
\* the way failKind says: "internal" an InternalError is pending, "other"
\* another exception is pending, "silent" no exception is pending.  The
\* loop's result from the given attempt: an InternalError sleeps and retries
\* while attempt < max_attempts - 1, a silent failure goes to the next
\* attempt, another exception is re-thrown at once
EnsureLoop(attempt, firstOk, failKind) ==
    IF attempt >= EnsureMaxAttempts
    THEN [ready |-> FALSE, probes |-> attempt, exception |-> NoException]
    ELSE IF attempt >= firstOk
    THEN [ready |-> TRUE, probes |-> attempt + 1, exception |-> NoException]
    ELSE IF failKind = "other"
    THEN [ready |-> FALSE, probes |-> attempt + 1, exception |-> OtherError]
    ELSE IF firstOk < EnsureMaxAttempts
    THEN [ready |-> TRUE, probes |-> firstOk + 1, exception |-> NoException]
    ELSE [ready |-> FALSE, probes |-> EnsureMaxAttempts, exception |-> NoException]

EnsurePlatformEncodingReadyUnchecked(test_string, firstOk, failKind) ==
    EnsureLoop(0, firstOk, failKind)
EnsurePlatformEncodingReady(test_string, firstOk, failKind) ==
    IF test_string = NullStr
    THEN [ready |-> FALSE, probes |-> 0, exception |-> NoException]
    ELSE EnsureLoop(0, firstOk, failKind)

(* ---- wrapped_lookupAllHostAddr (dns_interceptor.cpp 67-209) ---- *)
DnsKeys == {KeyInet6, KeyInet4}

\* wrapped_Inet6_lookupAllHostAddr / wrapped_Inet4_lookupAllHostAddr pass their
\* static original pointer, read when the runtime calls the wrapper
wrapped_lookupAllHostAddr_Enter(t) ==
    /\ pc[t] \in {"idle", "done"}
    /\ \E kind \in DnsKeys \cap installed, hostname \in {NullStr, HostId} :
        loc' = [loc EXCEPT ![t] =
                    [IdleLoc EXCEPT !.kind = kind, !.hostname = hostname,
                                    !.original = IF kind = KeyInet6
                                                 THEN original_Inet6_lookupAllHostAddr
                                                 ELSE original_Inet4_lookupAllHostAddr]]
    /\ pc' = [pc EXCEPT ![t] = "dns_vminit"]
    /\ UNCHANGED <<agentVars, registryVars, classVars, methodVars, stringVars,
                   g_vm_init_complete, g_context_mutex, g_strings_mutex, reg, vm>>

\* original(env, obj, hostname) with the hostname argument as received
DnsArgumentsNull(l) == <<NullStr>>
DnsArguments(l) == <<l.hostname>>

DnsForward(l, r) ==
    CallOriginal(l, l.original, DnsArguments(l), r, [l EXCEPT !.result = 0])

\* the last branch: a missing original raises UnsupportedOperationException;
\* a FindClass that fails leaves its own error pending
DnsForwardOrThrow(l, r, exClassOk) ==
    CallOriginal(l, l.original, DnsArguments(l), r,
                 [l EXCEPT !.result = 0,
                           !.exception = IF exClassOk THEN UnsupportedOperation ELSE OtherError])

\* Check 1: if (!g_vm_init_complete) forward
wrapped_lookupAllHostAddr_VMInit(t) ==
    /\ pc[t] = "dns_vminit"
    /\ \E r \in LookupResults :
        IF VMInitNotComplete(g_vm_init_complete)
        THEN /\ loc' = [loc EXCEPT ![t] = DnsForward([loc[t] EXCEPT !.ready = g_vm_init_complete], r)]
             /\ pc' = [pc EXCEPT ![t] = "done"]
        ELSE /\ loc' = [loc EXCEPT ![t].ready = g_vm_init_complete]
             /\ pc' = [pc EXCEPT ![t] = "dns_class"]
    /\ UNCHANGED <<agentVars, registryVars, classVars, methodVars, stringVars,
                   g_vm_init_complete, g_context_mutex, g_strings_mutex, reg, vm>>

\* Check 2: contextClass = GetNetworkBlockerContextClass(); null: forward
wrapped_lookupAllHostAddr_Class(t) ==
    /\ pc[t] = "dns_class"
    /\ g_context_mutex = "free"
    /\ \E r \in LookupResults :
        IF g_network_blocker_context_class = 0
        THEN /\ loc' = [loc EXCEPT ![t] = DnsForward(loc[t], r)]
             /\ pc' = [pc EXCEPT ![t] = "done"]
        ELSE /\ loc' = [loc EXCEPT ![t].contextClass = g_network_blocker_context_class]
             /\ pc' = [pc EXCEPT ![t] = "dns_hasactive"]
    /\ UNCHANGED <<agentVars, registryVars, classVars, methodVars, stringVars,
                   g_vm_init_complete, g_context_mutex, g_strings_mutex, reg, vm>>

\* Check 3: hasActiveConfigMethod = GetHasActiveConfigurationMethod()
wrapped_lookupAllHostAddr_HasActiveMethod(t) ==
    /\ pc[t] = "dns_hasactive"
    /\ g_context_mutex = "free"
    /\ loc' = [loc EXCEPT ![t].hasActiveConfigMethod = g_has_active_configuration_method]
    /\ pc' = [pc EXCEPT ![t] = IF g_has_active_configuration_method # 0
                               THEN "dns_hasconfig" ELSE "dns_extract"]
    /\ UNCHANGED <<agentVars, registryVars, classVars, methodVars, stringVars,
                   g_vm_init_complete, g_context_mutex, g_strings_mutex, reg, vm>>

\* hasConfig = CallStaticBooleanMethod(contextClass, hasActiveConfigMethod)
wrapped_lookupAllHostAddr_HasConfig(t) ==
    /\ pc[t] = "dns_hasconfig"
    /\ \E p \in Policies :
        LET hasConfig == hasActiveConfiguration(p)
        IN  /\ loc' = [loc EXCEPT ![t] = PolicyCall(loc[t], loc[t].contextClass,
                                                     "hasActiveConfiguration",
                                                     NullStr, 0, hasConfig)]
            /\ pc' = [pc EXCEPT ![t] = IF NoActiveConfiguration(hasConfig)
                                       THEN "dns_ensure" ELSE "dns_extract"]
    /\ UNCHANGED <<agentVars, registryVars, classVars, methodVars, stringVars,
                   g_vm_init_complete, g_context_mutex, g_strings_mutex, reg, vm>>

\* the probe failed: ThrowNew(InternalError, "Platform encoding not ready ...")
\* and return nullptr; a FindClass that fails leaves its own error pending.
\* The first variant returns nullptr with nothing raised
DnsEncodingNotReadySilent(l, exClassOk) == [l EXCEPT !.result = 0]
DnsEncodingNotReady(l, exClassOk) ==
    [l EXCEPT !.result = 0,
              !.exception = IF exClassOk THEN InternalError ELSE OtherError]

\* no active configuration: EnsurePlatformEncodingReady, then forward or
\* ThrowNew(InternalError); GetCallerAgentString takes g_strings_mutex
wrapped_lookupAllHostAddr_NoConfig(t) ==
    /\ pc[t] = "dns_ensure"
    /\ g_strings_mutex = "free"
    /\ \E firstOk \in ProbeOracle(EnsureMaxAttempts), failKind \in {"internal", "other", "silent"},
          exClassOk \in BOOLEAN, r \in LookupResults :
        LET e == EnsurePlatformEncodingReady(g_caller_agent_string, firstOk, failKind)
            l == [loc[t] EXCEPT !.probes = e.probes, !.exception = e.exception,
                                !.encoding_ready = IF e.ready THEN "ready" ELSE "not_ready",
                                !.test_string = g_caller_agent_string,
                                !.firstOk = firstOk, !.failKind = failKind]
        IN  loc' = [loc EXCEPT ![t] =
                        IF e.ready
                        THEN DnsForward(l, r)
                        ELSE DnsEncodingNotReady(l, exClassOk)]
    /\ pc' = [pc EXCEPT ![t] = "done"]
    /\ UNCHANGED <<agentVars, registryVars, classVars, methodVars, stringVars,
                   g_vm_init_complete, g_context_mutex, g_strings_mutex, reg, vm>>

\* STEP 1: hostCStr = GetStringUTFChars(hostname); without a hostname string
\* the wrapper goes straight to the original.  hostname != nullptr &&
\* hostCStr != nullptr guards the check; the first variant drops the null test
HostnameExtractedUnguarded(hostname, utfOk) == utfOk
HostnameExtracted(hostname, utfOk) == hostname # NullStr /\ utfOk

wrapped_lookupAllHostAddr_Extract(t) ==
    /\ pc[t] = "dns_extract"
    /\ \E utfOk \in BOOLEAN, pending \in BOOLEAN, exClassOk \in BOOLEAN, r \in LookupResults :
        IF HostnameExtracted(loc[t].hostname, utfOk)
        THEN /\ loc' = [loc EXCEPT ![t].held = {"hostname"}]
             /\ pc' = [pc EXCEPT ![t] = "dns_checkmethod"]
        ELSE /\ loc' = [loc EXCEPT ![t] =
                    DnsForwardOrThrow(
                        [loc[t] EXCEPT !.exception =
                            IF loc[t].hostname # NullStr /\ pending THEN InternalError ELSE @],
                        r, exClassOk)]
             /\ pc' = [pc EXCEPT ![t] = "done"]
    /\ UNCHANGED <<agentVars, registryVars, classVars, methodVars, stringVars,
                   g_vm_init_complete, g_context_mutex, g_strings_mutex, reg, vm>>

\* checkConnectionMethod = GetCheckConnectionMethod(); null: release and forward
wrapped_lookupAllHostAddr_CheckMethod(t) ==
    /\ pc[t] = "dns_checkmethod"
    /\ g_context_mutex = "free"
    /\ \E exClassOk \in BOOLEAN, r \in LookupResults :
        IF g_check_connection_method # 0
        THEN /\ loc' = [loc EXCEPT ![t].checkConnectionMethod = g_check_connection_method]
             /\ pc' = [pc EXCEPT ![t] = "dns_caller"]
        ELSE /\ loc' = [loc EXCEPT ![t] =
                    DnsForwardOrThrow(ReleaseStringUTFChars(loc[t], {"hostname"}), r, exClassOk)]
             /\ pc' = [pc EXCEPT ![t] = "done"]
    /\ UNCHANGED <<agentVars, registryVars, classVars, methodVars, stringVars,
                   g_vm_init_complete, g_context_mutex, g_strings_mutex, reg, vm>>

\* callerString = GetCallerDnsString()
wrapped_lookupAllHostAddr_Caller(t) ==
    /\ pc[t] = "dns_caller"
    /\ g_strings_mutex = "free"
    /\ loc' = [loc EXCEPT ![t].callerString = g_caller_dns_string]
    /\ pc' = [pc EXCEPT ![t] = "dns_check"]
    /\ UNCHANGED <<agentVars, registryVars, classVars, methodVars, stringVars,
                   g_vm_init_complete, g_context_mutex, g_strings_mutex, reg, vm>>

\* after checkConnection raised: release the hostname, return nullptr
DnsBlockedKeepsHandle(l) == [l EXCEPT !.result = 0]
DnsBlocked(l) == [ReleaseStringUTFChars(l, {"hostname"}) EXCEPT !.result = 0]

\* after checkConnection returned: release the hostname, call the original
DnsAllowed(l, r, exClassOk) ==
    DnsForwardOrThrow(ReleaseStringUTFChars(l, {"hostname"}), r, exClassOk)

\* CallStaticVoidMethod(contextClass, checkConnectionMethod, hostname, -1, callerString)
wrapped_lookupAllHostAddr_CheckConnection(t) ==
    /\ pc[t] = "dns_check"
    /\ \E p \in Policies, exClassOk \in BOOLEAN, r \in LookupResults :
        LET threw == checkConnection(p, loc[t].hostname)
            l == PolicyCall(loc[t], loc[t].contextClass, "checkConnection",
                            loc[t].hostname, DnsPort, threw)
        IN  loc' = [loc EXCEPT ![t] =
                        IF threw
                        THEN DnsBlocked([l EXCEPT !.exception = Violation(l.hostname, DnsPort)])
                        ELSE DnsAllowed(l, r, exClassOk)]
    /\ pc' = [pc EXCEPT ![t] = "done"]
    /\ UNCHANGED <<agentVars, registryVars, classVars, methodVars, stringVars,
                   g_vm_init_complete, g_context_mutex, g_strings_mutex, reg, vm>>

wrapped_lookupAllHostAddr(t) ==
    \/ wrapped_lookupAllHostAddr_Enter(t)
    \/ wrapped_lookupAllHostAddr_VMInit(t)
    \/ wrapped_lookupAllHostAddr_Class(t)
    \/ wrapped_lookupAllHostAddr_HasActiveMethod(t)
    \/ wrapped_lookupAllHostAddr_HasConfig(t)
    \/ wrapped_lookupAllHostAddr_NoConfig(t)
    \/ wrapped_lookupAllHostAddr_Extract(t)
    \/ wrapped_lookupAllHostAddr_CheckMethod(t)
    \/ wrapped_lookupAllHostAddr_Caller(t)
    \/ wrapped_lookupAllHostAddr_CheckConnection(t)

(* ---- wrapped_Net_connect0 (socket_interceptor.cpp 151-358) ---- *)
wrapped_Net_connect0_EnterKeepsDecision(t) ==
    /\ pc[t] \in {"idle", "done"}
    /\ KeyNetConnect0 \in installed
    /\ \E remote \in BOOLEAN, remotePort \in Ports :
        loc' = [loc EXCEPT ![t] = [IdleLoc EXCEPT !.kind = KeyNetConnect0,
                                                  !.remote = remote, !.port = remotePort,
                                                  !.connectionBlocked = loc[t].connectionBlocked]]
    /\ pc' = [pc EXCEPT ![t] = "con_vminit"]
    /\ UNCHANGED <<agentVars, registryVars, classVars, methodVars, stringVars,
                   g_vm_init_complete, g_context_mutex, g_strings_mutex, reg, vm>>
wrapped_Net_connect0_Enter(t) ==
    /\ pc[t] \in {"idle", "done"}
    /\ KeyNetConnect0 \in installed
    /\ \E remote \in BOOLEAN, remotePort \in Ports :
        loc' = [loc EXCEPT ![t] = [IdleLoc EXCEPT !.kind = KeyNetConnect0,
                                                  !.remote = remote, !.port = remotePort]]
    /\ pc' = [pc EXCEPT ![t] = "con_vminit"]
    /\ UNCHANGED <<agentVars, registryVars, classVars, methodVars, stringVars,
                   g_vm_init_complete, g_context_mutex, g_strings_mutex, reg, vm>>

\* original_Net_connect0(env, cls, preferIPv6, fd, remote, remotePort), or -2
\* when the original pointer is null
ConnectArgumentsPortDropped(l) == <<l.remote, 0>>
ConnectArguments(l) == <<l.remote, l.port>>

ConnectForward(l, address, r) ==
    CallOriginal(l, address, ConnectArguments(l), r, [l EXCEPT !.result = ConnectError])

\* Check 1: if (!g_vm_init_complete) forward
wrapped_Net_connect0_VMInit(t) ==
    /\ pc[t] = "con_vminit"
    /\ \E r \in ConnectResults :
        IF VMInitNotComplete(g_vm_init_complete)
        THEN /\ loc' = [loc EXCEPT ![t] =
                    ConnectForward([loc[t] EXCEPT !.ready = g_vm_init_complete],
                                   original_Net_connect0, r)]
             /\ pc' = [pc EXCEPT ![t] = "done"]
        ELSE /\ loc' = [loc EXCEPT ![t].ready = g_vm_init_complete]
             /\ pc' = [pc EXCEPT ![t] = "con_class"]
    /\ UNCHANGED <<agentVars, registryVars, classVars, methodVars, stringVars,
                   g_vm_init_complete, g_context_mutex, g_strings_mutex, reg, vm>>

\* Check 2: contextClass = GetNetworkBlockerContextClass(); null: forward
wrapped_Net_connect0_Class(t) ==
    /\ pc[t] = "con_class"
    /\ g_context_mutex = "free"
    /\ \E r \in ConnectResults :
        IF g_network_blocker_context_class = 0
        THEN /\ loc' = [loc EXCEPT ![t] = ConnectForward(loc[t], original_Net_connect0, r)]
             /\ pc' = [pc EXCEPT ![t] = "done"]
        ELSE /\ loc' = [loc EXCEPT ![t].contextClass = g_network_blocker_context_class]
             /\ pc' = [pc EXCEPT ![t] = "con_hasactive"]
    /\ UNCHANGED <<agentVars, registryVars, classVars, methodVars, stringVars,
                   g_vm_init_complete, g_context_mutex, g_strings_mutex, reg, vm>>

\* Check 3: hasActiveConfigMethod = GetHasActiveConfigurationMethod(); null: forward
wrapped_Net_connect0_HasActiveMethod(t) ==
    /\ pc[t] = "con_hasactive"
    /\ g_context_mutex = "free"
    /\ \E r \in ConnectResults :
        IF g_has_active_configuration_method = 0
        THEN /\ loc' = [loc EXCEPT ![t] = ConnectForward(loc[t], original_Net_connect0, r)]
             /\ pc' = [pc EXCEPT ![t] = "done"]
        ELSE /\ loc' = [loc EXCEPT ![t].hasActiveConfigMethod = g_has_active_configuration_method]
             /\ pc' = [pc EXCEPT ![t] = "con_hasconfig"]
    /\ UNCHANGED <<agentVars, registryVars, classVars, methodVars, stringVars,
                   g_vm_init_complete, g_context_mutex, g_strings_mutex, reg, vm>>

\* hasConfig = CallStaticBooleanMethod(contextClass, hasActiveConfigMethod); false: forward
wrapped_Net_connect0_HasConfig(t) ==
    /\ pc[t] = "con_hasconfig"
    /\ \E p \in Policies, r \in ConnectResults :
        LET hasConfig == hasActiveConfiguration(p)
            l == PolicyCall(loc[t], loc[t].contextClass, "hasActiveConfiguration",
                            NullStr, 0, hasConfig)
        IN  IF NoActiveConfiguration(hasConfig)
            THEN /\ loc' = [loc EXCEPT ![t] = ConnectForward(l, original_Net_connect0, r)]
                 /\ pc' = [pc EXCEPT ![t] = "done"]
            ELSE /\ loc' = [loc EXCEPT ![t] = l]
                 /\ pc' = [pc EXCEPT ![t] = "con_extract"]
    /\ UNCHANGED <<agentVars, registryVars, classVars, methodVars, stringVars,
                   g_vm_init_complete, g_context_mutex, g_strings_mutex, reg, vm>>

\* the IP string via getHostAddress(), then the host name via getHostName()
\* only when the IP characters were obtained; a failed GetStringUTFChars
\* clears its exception and keeps the jstring
\* if (hostAddressCStr != nullptr) { ... getHostName ... }; the first variant
\* looks the host name up whatever the IP extraction gave
HostNameLookupUnguarded(hostAddressCStr) == TRUE
HostNameLookupGuard(hostAddressCStr) == hostAddressCStr

wrapped_Net_connect0_Extract(t) ==
    /\ pc[t] = "con_extract"
    /\ \E classOk \in BOOLEAN, addressMethodOk \in BOOLEAN, address \in {NullStr, IpId},
          addressUtfOk \in BOOLEAN, nameMethodOk \in BOOLEAN, name \in {NullStr, HostId},
          nameUtfOk \in BOOLEAN :
        LET hostAddressString ==
                IF loc[t].remote /\ classOk /\ addressMethodOk THEN address ELSE NullStr
            hostAddressCStr == hostAddressString # NullStr /\ addressUtfOk
            getHostNameCalled == /\ loc[t].remote /\ classOk
                                 /\ HostNameLookupGuard(hostAddressCStr) /\ nameMethodOk
            hostNameString == IF getHostNameCalled THEN name ELSE NullStr
            hostNameCStr == hostNameString # NullStr /\ nameUtfOk
        IN  loc' = [loc EXCEPT ![t].hostAddressString = hostAddressString,
                               ![t].hostNameString = hostNameString,
                               ![t].getHostNameCalled = getHostNameCalled,
                               ![t].held = (IF hostAddressCStr THEN {"hostAddress"} ELSE {})
                                           \cup (IF hostNameCStr THEN {"hostname"} ELSE {})]
    /\ pc' = [pc EXCEPT ![t] = IF loc[t].remote THEN "con_class2" ELSE "con_final"]
    /\ UNCHANGED <<agentVars, registryVars, classVars, methodVars, stringVars,
                   g_vm_init_complete, g_context_mutex, g_strings_mutex, reg, vm>>

\* the inner jclass contextClass = GetNetworkBlockerContextClass()
wrapped_Net_connect0_Class2(t) ==
    /\ pc[t] = "con_class2"
    /\ g_context_mutex = "free"
    /\ loc' = [loc EXCEPT ![t].innerContextClass = g_network_blocker_context_class]
    /\ pc' = [pc EXCEPT ![t] = "con_checkmethod"]
    /\ UNCHANGED <<agentVars, registryVars, classVars, methodVars, stringVars,
                   g_vm_init_complete, g_context_mutex, g_strings_mutex, reg, vm>>

\* checkConnectionMethod = GetCheckConnectionMethod()
wrapped_Net_connect0_CheckMethod(t) ==
    /\ pc[t] = "con_checkmethod"
    /\ g_context_mutex = "free"
    /\ loc' = [loc EXCEPT ![t].checkConnectionMethod = g_check_connection_method]
    /\ pc' = [pc EXCEPT ![t] = "con_blockedmethod"]
    /\ UNCHANGED <<agentVars, registryVars, classVars, methodVars, stringVars,
                   g_vm_init_complete, g_context_mutex, g_strings_mutex, reg, vm>>

\* isExplicitlyBlockedMethod = GetIsExplicitlyBlockedMethod(); the policy is
\* consulted only when the class and both methods are non-null
wrapped_Net_connect0_BlockedMethod(t) ==
    /\ pc[t] = "con_blockedmethod"
    /\ g_context_mutex = "free"
    /\ loc' = [loc EXCEPT ![t].isExplicitlyBlockedMethod = g_is_explicitly_blocked_method]
    /\ pc' = [pc EXCEPT ![t] =
                IF /\ loc[t].innerContextClass # 0
                   /\ loc[t].checkConnectionMethod # 0
                   /\ g_is_explicitly_blocked_method # 0
                THEN "con_caller" ELSE "con_final"]
    /\ UNCHANGED <<agentVars, registryVars, classVars, methodVars, stringVars,
                   g_vm_init_complete, g_context_mutex, g_strings_mutex, reg, vm>>

\* callerString = GetCallerAgentString()
wrapped_Net_connect0_Caller(t) ==
    /\ pc[t] = "con_caller"
    /\ g_strings_mutex = "free"
    /\ loc' = [loc EXCEPT ![t].callerString = g_caller_agent_string]
    /\ pc' = [pc EXCEPT ![t] = "con_explicit_host"]
    /\ UNCHANGED <<agentVars, registryVars, classVars, methodVars, stringVars,
                   g_vm_init_complete, g_context_mutex, g_strings_mutex, reg, vm>>

\* isHostExplicitlyBlocked: no call when the string or its characters are missing
CanCheck(l, which) ==
    IF which = "hostname"
    THEN l.hostNameString # NullStr /\ "hostname" \in l.held
    ELSE l.hostAddressString # NullStr /\ "hostAddress" \in l.held

\* hostnameExplicitlyBlocked = isHostExplicitlyBlocked(..., hostNameString, hostNameCStr)
wrapped_Net_connect0_ExplicitHost(t) ==
    /\ pc[t] = "con_explicit_host"
    /\ \E p \in Policies :
        LET blocked == isExplicitlyBlocked(p, loc[t].hostNameString)
        IN  loc' = [loc EXCEPT ![t] =
                IF CanCheck(loc[t], "hostname")
                THEN [PolicyCall(loc[t], loc[t].innerContextClass, "isExplicitlyBlocked",
                                 loc[t].hostNameString, 0, blocked)
                        EXCEPT !.hostnameExplicitlyBlocked = blocked]
                ELSE loc[t]]
    /\ pc' = [pc EXCEPT ![t] = "con_explicit_ip"]
    /\ UNCHANGED <<agentVars, registryVars, classVars, methodVars, stringVars,
                   g_vm_init_complete, g_context_mutex, g_strings_mutex, reg, vm>>

\* ipExplicitlyBlocked = isHostExplicitlyBlocked(..., hostAddressString, hostAddressCStr);
\* if either is set, connectionBlocked = true
wrapped_Net_connect0_ExplicitIp(t) ==
    /\ pc[t] = "con_explicit_ip"
    /\ \E p \in Policies :
        LET blocked == CanCheck(loc[t], "hostAddress")
                       /\ isExplicitlyBlocked(p, loc[t].hostAddressString)
            l == IF CanCheck(loc[t], "hostAddress")
                 THEN PolicyCall(loc[t], loc[t].innerContextClass, "isExplicitlyBlocked",
                                 loc[t].hostAddressString, 0, blocked)
                 ELSE loc[t]
            hostIsExplicitlyBlocked == l.hostnameExplicitlyBlocked \/ blocked
        IN  /\ loc' = [loc EXCEPT ![t] = [l EXCEPT !.ipExplicitlyBlocked = blocked,
                                                   !.connectionBlocked = hostIsExplicitlyBlocked]]
            /\ pc' = [pc EXCEPT ![t] = IF hostIsExplicitlyBlocked THEN "con_throw" ELSE "con_tryip"]
    /\ UNCHANGED <<agentVars, registryVars, classVars, methodVars, stringVars,
                   g_vm_init_complete, g_context_mutex, g_strings_mutex, reg, vm>>

\* CallStaticVoidMethod(contextClass, checkConnectionMethod, host, remotePort, callerString)
\* and the exception it leaves pending; the first variant always names the IP address
CheckConnectionCallNamesIp(l, host, threw) ==
    [PolicyCall(l, l.innerContextClass, "checkConnection", host, l.port, threw)
        EXCEPT !.exception = IF threw THEN Violation(l.hostAddressString, l.port) ELSE @]
CheckConnectionCall(l, host, threw) ==
    [PolicyCall(l, l.innerContextClass, "checkConnection", host, l.port, threw)
        EXCEPT !.exception = IF threw THEN Violation(host, l.port) ELSE @]

\* the identifier the explicit-block branch hands to checkConnection
ExplicitBlockTarget(l) ==
    IF l.hostNameString # NullStr THEN l.hostNameString ELSE l.hostAddressString

\* explicitly blocked: call checkConnection "to throw the exception with proper details"
wrapped_Net_connect0_ExplicitBlock(t) ==
    /\ pc[t] = "con_throw"
    /\ \E p \in Policies :
        LET host == ExplicitBlockTarget(loc[t])
        IN  loc' = [loc EXCEPT ![t] =
                IF host # NullStr
                THEN CheckConnectionCall(loc[t], host, checkConnection(p, host))
                ELSE loc[t]]
    /\ pc' = [pc EXCEPT ![t] = "con_final"]
    /\ UNCHANGED <<agentVars, registryVars, classVars, methodVars, stringVars,
                   g_vm_init_complete, g_context_mutex, g_strings_mutex, reg, vm>>

\* tryAllowConnection, the IP check: allowed when it does not throw; otherwise
\* ExceptionClear and go on with the host name, or re-throw without one.  The
\* first variant of the continuation checks the host name whatever the IP
\* check gave
AfterIpCheckAlwaysHostname(threw, hostnameCheckable) ==
    IF hostnameCheckable THEN "con_tryhost"
    ELSE IF ~threw THEN "con_final" ELSE "con_rethrow"
AfterIpCheck(threw, hostnameCheckable) ==
    IF ~threw THEN "con_final"
    ELSE IF hostnameCheckable THEN "con_tryhost"
    ELSE "con_rethrow"

wrapped_Net_connect0_TryIp(t) ==
    /\ pc[t] = "con_tryip"
    /\ \E p \in Policies :
        LET threw == checkConnection(p, loc[t].hostAddressString)
        IN  IF CanCheck(loc[t], "hostAddress")
            THEN /\ loc' = [loc EXCEPT ![t] =
                        [PolicyCall(loc[t], loc[t].innerContextClass, "checkConnection",
                                    loc[t].hostAddressString, loc[t].port, threw)
                            EXCEPT !.connectionBlocked = FALSE]]
                 /\ pc' = [pc EXCEPT ![t] = AfterIpCheck(threw, CanCheck(loc[t], "hostname"))]
            ELSE /\ loc' = [loc EXCEPT ![t].connectionBlocked = FALSE]
                 /\ pc' = [pc EXCEPT ![t] =
                        IF CanCheck(loc[t], "hostname") THEN "con_tryhost" ELSE "con_final"]
    /\ UNCHANGED <<agentVars, registryVars, classVars, methodVars, stringVars,
                   g_vm_init_complete, g_context_mutex, g_strings_mutex, reg, vm>>

\* tryAllowConnection, the host name check: blocked exactly when it throws
wrapped_Net_connect0_TryHost(t) ==
    /\ pc[t] = "con_tryhost"
    /\ \E p \in Policies :
        LET threw == checkConnection(p, loc[t].hostNameString)
        IN  loc' = [loc EXCEPT ![t] =
                [CheckConnectionCall(loc[t], loc[t].hostNameString, threw)
                    EXCEPT !.connectionBlocked = threw]]
    /\ pc' = [pc EXCEPT ![t] = "con_final"]
    /\ UNCHANGED <<agentVars, registryVars, classVars, methodVars, stringVars,
                   g_vm_init_complete, g_context_mutex, g_strings_mutex, reg, vm>>

\* tryAllowConnection without a host name: checkConnection on the IP again
\* to re-throw, return true
wrapped_Net_connect0_Rethrow(t) ==
    /\ pc[t] = "con_rethrow"
    /\ \E p \in Policies :
        LET threw == checkConnection(p, loc[t].hostAddressString)
        IN  loc' = [loc EXCEPT ![t] =
                [CheckConnectionCall(loc[t], loc[t].hostAddressString, threw)
                    EXCEPT !.connectionBlocked = TRUE]]
    /\ pc' = [pc EXCEPT ![t] = "con_final"]
    /\ UNCHANGED <<agentVars, registryVars, classVars, methodVars, stringVars,
                   g_vm_init_complete, g_context_mutex, g_strings_mutex, reg, vm>>

\* release the strings; return -2 when blocked and an exception is pending,
\* call the original otherwise.  The first variant releases after the call
ConnectReturnReleasesLate(l, address, r) ==
    IF l.connectionBlocked /\ l.exception.type # "none"
    THEN [ReleaseStringUTFChars(l, {"hostname", "hostAddress"}) EXCEPT !.result = ConnectError]
    ELSE ReleaseStringUTFChars(ConnectForward(l, address, r), {"hostname", "hostAddress"})
ConnectReturn(l, address, r) ==
    LET l1 == ReleaseStringUTFChars(l, {"hostname", "hostAddress"})
    IN  IF l1.connectionBlocked /\ l1.exception.type # "none"
        THEN [l1 EXCEPT !.result = ConnectError]
        ELSE ConnectForward(l1, address, r)

wrapped_Net_connect0_Return(t) ==
    /\ pc[t] = "con_final"
    /\ \E r \in ConnectResults :
        loc' = [loc EXCEPT ![t] = ConnectReturn(loc[t], original_Net_connect0, r)]
    /\ pc' = [pc EXCEPT ![t] = "done"]
    /\ UNCHANGED <<agentVars, registryVars, classVars, methodVars, stringVars,
                   g_vm_init_complete, g_context_mutex, g_strings_mutex, reg, vm>>

wrapped_Net_connect0(t) ==
    \/ wrapped_Net_connect0_Enter(t)
    \/ wrapped_Net_connect0_VMInit(t)
    \/ wrapped_Net_connect0_Class(t)
    \/ wrapped_Net_connect0_HasActiveMethod(t)
    \/ wrapped_Net_connect0_HasConfig(t)
    \/ wrapped_Net_connect0_Extract(t)
    \/ wrapped_Net_connect0_Class2(t)
    \/ wrapped_Net_connect0_CheckMethod(t)
    \/ wrapped_Net_connect0_BlockedMethod(t)
    \/ wrapped_Net_connect0_Caller(t)
    \/ wrapped_Net_connect0_ExplicitHost(t)
    \/ wrapped_Net_connect0_ExplicitIp(t)
    \/ wrapped_Net_connect0_ExplicitBlock(t)
    \/ wrapped_Net_connect0_TryIp(t)
    \/ wrapped_Net_connect0_TryHost(t)
    \/ wrapped_Net_connect0_Rethrow(t)
    \/ wrapped_Net_connect0_Return(t)

Next ==
    \/ Agent_OnLoad
    \/ registerWithAgent_Enter
    \/ registerWithAgent_NewGlobalRef
    \/ registerWithAgent_CheckConnection
    \/ registerWithAgent_IsExplicitlyBlocked
    \/ registerWithAgent_HasActiveConfiguration
    \/ Agent_OnUnload
    \/ VMInitCallback_Enter
    \/ VMInitCallback_Strings
    \/ VMInitCallback_Probe
    \/ VMInitCallback_SetFlag
    \/ VMInitCallback_Return
    \/ NativeMethodBindCallback

Spec == Init /\ [][Next]_vars

(* ---- the wrappers at work ---- *)
\* the state after a successful load in which the runtime has bound one of
\* the wrapped methods and taken the wrapper as its replacement
InitBound ==
    /\ g_jvm = TRUE /\ g_jvmti = TRUE
    /\ url = NoRequest
    /\ agent = InitializeJVMTI(5)
    /\ \E key \in WrappedKeys :
        /\ g_original_functions = StoreOriginalFunction([k \in Keys |-> 0], key, 1)
        /\ original_Net_connect0 = IF key = KeyNetConnect0 THEN 1 ELSE 0
        /\ original_Inet6_lookupAllHostAddr = IF key = KeyInet6 THEN 1 ELSE 0
        /\ original_Inet4_lookupAllHostAddr = IF key = KeyInet4 THEN 1 ELSE 0
        /\ installed = {key}
    /\ binds = 1
    /\ bind = NoBindTrace
    /\ g_network_blocker_context_class = 0
    /\ g_check_connection_method = 0
    /\ g_is_explicitly_blocked_method = 0
    /\ g_has_active_configuration_method = 0
    /\ g_caller_agent_string = NullStr /\ g_caller_dns_string = NullStr
    /\ g_vm_init_complete = FALSE
    /\ g_context_mutex = "free" /\ g_strings_mutex = "free"
    /\ classRefs = {} /\ nextRef = 1
    /\ stringRefs = {}
    /\ reg = IdleReg
    /\ vm = IdleVm
    /\ pc = [t \in Threads |-> "idle"]
    /\ loc = [t \in Threads |-> IdleLoc]

NextWrapper ==
    \/ registerWithAgent_Enter
    \/ registerWithAgent_NewGlobalRef
    \/ registerWithAgent_CheckConnection
    \/ registerWithAgent_IsExplicitlyBlocked
    \/ registerWithAgent_HasActiveConfiguration
    \/ Agent_OnUnload
    \/ VMInitCallback_Enter
    \/ VMInitCallback_Strings
    \/ VMInitCallback_Probe
    \/ VMInitCallback_SetFlag
    \/ VMInitCallback_Return
    \/ \E t \in Threads : wrapped_lookupAllHostAddr(t)
    \/ \E t \in Threads : wrapped_Net_connect0(t)

SpecWrapper == InitBound /\ [][NextWrapper]_vars

(* ---- the VM-init callback on its JVM thread ---- *)
VMInitCallback_Run ==
    \/ VMInitCallback_Strings
    \/ VMInitCallback_Probe
    \/ VMInitCallback_SetFlag
    \/ VMInitCallback_Return

NextVMInit ==
    \/ registerWithAgent_Enter
    \/ registerWithAgent_NewGlobalRef
    \/ registerWithAgent_CheckConnection
    \/ registerWithAgent_IsExplicitlyBlocked
    \/ registerWithAgent_HasActiveConfiguration
    \/ Agent_OnUnload
    \/ VMInitCallback_Enter
    \/ VMInitCallback_Strings
    \/ VMInitCallback_Probe
    \/ VMInitCallback_SetFlag
    \/ VMInitCallback_Return

\* once entered, the callback keeps running: it waits for no lock after its
\* lock_guard and its sleeps are bounded
SpecVMInit == InitBound /\ [][NextVMInit]_vars /\ WF_vars(VMInitCallback_Run)

(* ---- the wrappers without their original ---- *)
\* as InitBound, after a bind event whose address was null: the wrapper is
\* installed and its stored original pointer is nullptr
InitNullOriginal ==
    /\ g_jvm = TRUE /\ g_jvmti = TRUE
    /\ url = NoRequest
    /\ agent = InitializeJVMTI(5)
    /\ g_original_functions = [k \in Keys |-> 0]
    /\ original_Net_connect0 = 0
    /\ original_Inet6_lookupAllHostAddr = 0
    /\ original_Inet4_lookupAllHostAddr = 0
    /\ \E key \in WrappedKeys : installed = {key}
    /\ binds = 1
    /\ bind = NoBindTrace
    /\ g_network_blocker_context_class = 0
    /\ g_check_connection_method = 0
    /\ g_is_explicitly_blocked_method = 0
    /\ g_has_active_configuration_method = 0
    /\ g_caller_agent_string = NullStr /\ g_caller_dns_string = NullStr
    /\ g_vm_init_complete = FALSE
    /\ g_context_mutex = "free" /\ g_strings_mutex = "free"
    /\ classRefs = {} /\ nextRef = 1
    /\ stringRefs = {}
    /\ reg = IdleReg
    /\ vm = IdleVm
    /\ pc = [t \in Threads |-> "idle"]
    /\ loc = [t \in Threads |-> IdleLoc]

SpecNullOriginal == InitNullOriginal /\ [][NextWrapper]_vars

(* ---- the URL protocol ---- *)
InitURL == Init

\* +setConfiguration: replaces the whole configuration
setConfiguration ==
    /\ \E config \in UrlConfigurations :
        url' = [url EXCEPT !.configured = TRUE, !.config = config,
                           !.host = <<>>, !.decision = "none"]
    /\ UNCHANGED <<g_jvm, g_jvmti, agent, registryVars, classVars, methodVars, stringVars,
                   g_vm_init_complete, g_context_mutex, g_strings_mutex, reg, vm, wrapperVars>>

\* a request for host goes through the protocol: failed when blocked, else let through
AirgapURLProtocol_request ==
    /\ url.configured
    /\ \E host \in UrlHosts :
        url' = [url EXCEPT !.host = host,
                           !.decision = IF ShouldBlockHost(url.config, host)
                                        THEN "blocked" ELSE "forwarded"]
    /\ UNCHANGED <<g_jvm, g_jvmti, agent, registryVars, classVars, methodVars, stringVars,
                   g_vm_init_complete, g_context_mutex, g_strings_mutex, reg, vm, wrapperVars>>

NextURL ==
    \/ setConfiguration
    \/ AirgapURLProtocol_request

SpecURL == InitURL /\ [][NextURL]_vars

(* ---- the bind events as the JVM sees them ---- *)
\* the state before the load, with the bind events traced
InitBind ==
    /\ g_jvm = FALSE /\ g_jvmti = FALSE
    /\ url = NoRequest
    /\ agent = [loaded |-> FALSE, result |-> JNI_OK, capability |-> FALSE,
                callbacks |-> FALSE, bindEvents |-> FALSE, vmInitEvents |-> FALSE,
                unloaded |-> FALSE]
    /\ g_original_functions = [k \in Keys |-> 0]
    /\ original_Net_connect0 = 0
    /\ original_Inet6_lookupAllHostAddr = 0
    /\ original_Inet4_lookupAllHostAddr = 0
    /\ installed = {}
    /\ binds = 0
    /\ bind = [observed |-> TRUE, events |-> <<>>]
    /\ g_network_blocker_context_class = 0
    /\ g_check_connection_method = 0
    /\ g_is_explicitly_blocked_method = 0
    /\ g_has_active_configuration_method = 0
    /\ g_caller_agent_string = NullStr /\ g_caller_dns_string = NullStr
    /\ g_vm_init_complete = FALSE
    /\ g_context_mutex = "free" /\ g_strings_mutex = "free"
    /\ classRefs = {} /\ nextRef = 1
    /\ stringRefs = {}
    /\ reg = IdleReg
    /\ vm = IdleVm
    /\ pc = [t \in Threads |-> "idle"]
    /\ loc = [t \in Threads |-> IdleLoc]

NextBind ==
    \/ Agent_OnLoad
    \/ NativeMethodBindCallback
    \/ Agent_OnUnload

SpecBind == InitBind /\ [][NextBind]_vars

(* ======================= properties ======================= *)
Done(t) == pc[t] = "done"
IsDns(l) == l.kind \in DnsKeys
IsConnect(l) == l.kind = KeyNetConnect0
LastCall(l) == l.calls[Len(l.calls)]

\* what policy p answers to a recorded call
Answer(p, c) ==
    IF c.method = "hasActiveConfiguration" THEN hasActiveConfiguration(p)
    ELSE IF c.method = "isExplicitlyBlocked" THEN isExplicitlyBlocked(p, c.host)
    ELSE checkConnection(p, c.host)

\* one policy explains every answer of the invocation: it did not change meanwhile
Stable(l) == \E p \in Policies : \A i \in 1..Len(l.calls) : l.calls[i].result = Answer(p, l.calls[i])

\* the connect wrapper blocked: error code, violation pending, original not called
ConnectWasBlocked(l) ==
    /\ l.forwarded = <<>>
    /\ l.result = ConnectError
    /\ l.exception.type = "NetworkRequestAttemptedException"

\* C1: an invocation of the DNS or connect wrapper that read the readiness
\* flag as false returns at once and has issued no call into managed policy
\* code, whatever the VM-init callback and the registration do meanwhile.
C1_NoPolicyCallBeforeReady ==
    \A t \in Threads :
        (pc[t] \notin {"idle", "dns_vminit", "con_vminit"} /\ ~loc[t].ready)
            => (loc[t].calls = <<>> /\ Done(t))

C1_Witness ==
    \E t \in Threads :
        /\ Done(t) /\ ~loc[t].ready /\ Len(loc[t].forwarded) = 1
        /\ g_vm_init_complete
        /\ g_network_blocker_context_class # 0
        /\ g_has_active_configuration_method # 0

\* C2: in a connect invocation whose policy did not change, an
\* isExplicitlyBlocked answer of true for the host name or for the IP means
\* the connection is blocked: -2, violation pending, original not called.
C2_ExplicitBlockWins ==
    \A t \in Threads :
        ( /\ Done(t) /\ IsConnect(loc[t]) /\ Stable(loc[t])
          /\ \E i \in 1..Len(loc[t].calls) :
                loc[t].calls[i].method = "isExplicitlyBlocked" /\ loc[t].calls[i].result )
            => ConnectWasBlocked(loc[t])

\* C3: whenever the connect wrapper decided 'blocked' (connectionBlocked is
\* set) under an unchanged policy, it returns -2 with the violation pending
\* and has not called the original connect.
C3_BlockedReturnsError ==
    \A t \in Threads :
        (Done(t) /\ IsConnect(loc[t]) /\ loc[t].connectionBlocked /\ Stable(loc[t]))
            => ConnectWasBlocked(loc[t])

\* C4: when checkConnection raises in the DNS wrapper, the wrapper returns
\* null without calling the original resolver, the violation for the host
\* name is still pending, and the hostname characters have been released.
C4_DnsViolationPropagates ==
    \A t \in Threads :
        ( /\ Done(t) /\ IsDns(loc[t]) /\ loc[t].calls # <<>>
          /\ LastCall(loc[t]).method = "checkConnection" /\ LastCall(loc[t]).result )
            => /\ loc[t].forwarded = <<>>
               /\ loc[t].result = 0
               /\ loc[t].exception = Violation(loc[t].hostname, DnsPort)
               /\ loc[t].held = {}
               /\ loc[t].released = <<"hostname">>

C4_Witness ==
    \E t \in Threads :
        /\ Done(t) /\ IsDns(loc[t]) /\ loc[t].calls # <<>>
        /\ LastCall(loc[t]).method = "checkConnection" /\ LastCall(loc[t]).result
        /\ loc[t].exception.type = "NetworkRequestAttemptedException"

\* C5: when the deciding (last) checkConnection of an invocation raised no
\* violation, the wrapper has called its original function exactly once, with
\* the arguments it received, and returns what that call returned.
C5_AllowedForwardsOnce ==
    \A t \in Threads :
        ( /\ Done(t) /\ loc[t].calls # <<>>
          /\ LastCall(loc[t]).method = "checkConnection" /\ ~LastCall(loc[t]).result )
            => /\ Len(loc[t].forwarded) = 1
               /\ loc[t].forwarded[1].args =
                    (IF IsDns(loc[t]) THEN <<loc[t].hostname>>
                                      ELSE <<loc[t].remote, loc[t].port>>)
               /\ loc[t].forwarded[1].address =
                    (IF IsDns(loc[t]) THEN loc[t].original ELSE original_Net_connect0)
               /\ loc[t].forwarded[1].address # 0
               /\ loc[t].result = loc[t].forwarded[1].result

\* the IP was denied, the host name allowed, the connect forwarded
C5_Witness ==
    \E t \in Threads :
        /\ Done(t)
        /\ IsConnect(loc[t])
        /\ Len(loc[t].forwarded) = 1
        /\ \E i \in 1..Len(loc[t].calls) :
            /\ i + 1 = Len(loc[t].calls)
            /\ loc[t].calls[i].method = "checkConnection"
            /\ loc[t].calls[i].host = IpId
            /\ loc[t].calls[i].result
            /\ loc[t].calls[i + 1].method = "checkConnection"
            /\ loc[t].calls[i + 1].host = HostId
            /\ ~loc[t].calls[i + 1].result

\* C6: once hasActiveConfiguration has answered false in an invocation, that
\* invocation makes no checkConnection and no isExplicitlyBlocked call.
C6_NoConfigurationNoChecks ==
    \A t \in Threads :
        (\E i \in 1..Len(loc[t].calls) :
            loc[t].calls[i].method = "hasActiveConfiguration" /\ ~loc[t].calls[i].result)
            => (\A j \in 1..Len(loc[t].calls) : loc[t].calls[j].method = "hasActiveConfiguration")

C6_Witness ==
    \E t \in Threads :
        /\ Done(t) /\ IsDns(loc[t]) /\ loc[t].ready /\ loc[t].contextClass # 0
        /\ Len(loc[t].calls) = 1 /\ ~loc[t].calls[1].result
        /\ Len(loc[t].forwarded) = 1

BridgeFullyPopulated ==
    /\ g_network_blocker_context_class # 0
    /\ g_check_connection_method # 0
    /\ g_is_explicitly_blocked_method # 0
    /\ g_has_active_configuration_method # 0
BridgeFullyCleared ==
    /\ g_network_blocker_context_class = 0
    /\ g_check_connection_method = 0
    /\ g_is_explicitly_blocked_method = 0
    /\ g_has_active_configuration_method = 0

\* C7: whenever the bridge lock is not held, the policy type and the three
\* method handles are all present or all absent.
C7_BridgeAllOrNothing ==
    g_context_mutex = "free" => (BridgeFullyPopulated \/ BridgeFullyCleared)

\* C8: after two registration calls that both resolved every handle (and no
\* unload), the cached handles are those of a single call and exactly one
\* global reference to the policy type is alive, the cached one.
C8_RegisterTwiceOneReference ==
    (reg.pc = "idle" /\ reg.registered = 2 /\ ~reg.failed /\ ~agent.unloaded)
        => (BridgeFullyPopulated /\ classRefs = {g_network_blocker_context_class})

MethodFailures == {"fail_check", "fail_blocked", "fail_active"}

\* C9: a registration in which a method resolution failed returns with no
\* exception pending and with the policy type absent, and a wrapper that
\* consults the bridge while it is in that state forwards to its original
\* exactly once without any policy call.
C9_FailedRegistrationUnregisters ==
    /\ [](reg.outcome \in MethodFailures
            => (reg.exc = "none" /\ g_network_blocker_context_class = 0))
    /\ [][\A t \in Threads :
            ( /\ reg.outcome \in MethodFailures
              /\ pc[t] \in {"dns_class", "con_class"}
              /\ pc'[t] # pc[t] )
                => /\ pc'[t] = "done"
                   /\ loc'[t].calls = <<>>
                   /\ Len(loc'[t].forwarded) = 1]_vars

\* a registration succeeded, a later one failed, a wrapper then forwarded
C9_Witness ==
    \E t \in Threads :
        /\ reg.outcome \in MethodFailures /\ reg.registered >= 1
        /\ Done(t) /\ loc[t].ready /\ loc[t].contextClass = 0
        /\ loc[t].calls = <<>> /\ Len(loc[t].forwarded) = 1

RECURSIVE LastStore(_, _)
LastStore(events, key) ==
    IF events = <<>> THEN 0
    ELSE IF events[Len(events)].stored = key THEN events[Len(events)].address
    ELSE LastStore(SubSeq(events, 1, Len(events) - 1), key)

\* C11: after any sequence of stores, a lookup of a key returns absent when
\* nothing was stored under it and otherwise the pointer of the most recent
\* store under that key, never another key's pointer or a placeholder.
C11_LookupReturnsLastStore ==
    bind.observed =>
        \A k \in Keys \cup {"java.net.PlainSocketImpl.socketConnect"} :
            GetOriginalFunction(g_original_functions, k) = LastStore(bind.events, k)

\* two stores under one key with different pointers, another key never stored
C11_Witness ==
    /\ Len(bind.events) = 2
    /\ bind.events[1].stored = KeyInet6 /\ bind.events[2].stored = KeyInet6
    /\ bind.events[1].address = 1 /\ bind.events[2].address = 2
    /\ GetOriginalFunction(g_original_functions, KeyInet6) = 2
    /\ GetOriginalFunction(g_original_functions, KeyNetConnect0) = 0

\* an error of the policy or of the platform-encoding probe is pending
PolicyOrEncodingError(l) ==
    l.exception.type \in {"NetworkRequestAttemptedException", "InternalError", "OtherError"}

\* C12: a DNS wrapper invocation whose original resolver pointer is absent and
\* which neither was blocked nor failed its encoding probe returns with an
\* UnsupportedOperationException pending, never a null result with no error.
C12_MissingResolverSignalled ==
    \A t \in Threads :
        (Done(t) /\ IsDns(loc[t]) /\ loc[t].original = 0 /\ ~PolicyOrEncodingError(loc[t]))
            => loc[t].exception = UnsupportedOperation

\* C13: a connect wrapper invocation that finds its original connect pointer
\* absent returns with an UnsupportedOperationException pending, an error
\* other than the policy violation, on whichever path it reaches the pointer.
C13_MissingConnectSignalled ==
    \A t \in Threads :
        ( /\ Done(t) /\ IsConnect(loc[t]) /\ original_Net_connect0 = 0
          /\ loc[t].exception.type # "NetworkRequestAttemptedException" )
            => loc[t].exception = UnsupportedOperation

\* C14: the load returns JNI_OK exactly when the environment, the capability,
\* the callbacks and both event classes were all obtained, and after a load
\* that returned JNI_ERR no callback is registered, no event class is enabled
\* and no wrapper gets installed.
C14_LoadAllOrNothing ==
    agent.loaded =>
        /\ (agent.result = JNI_OK) <=>
                (agent.capability /\ agent.callbacks /\ agent.bindEvents /\ agent.vmInitEvents)
        /\ (agent.result = JNI_ERR) =>
                /\ ~agent.callbacks /\ ~agent.bindEvents /\ ~agent.vmInitEvents
                /\ installed = {}

\* C15: every bind event for a target method both stores the original pointer
\* and returns a wrapper entry point as the replacement, so every key stored
\* in the registry is the key of a method whose binding a wrapper replaced.
C15_TargetsStoredAndReplaced ==
    bind.observed =>
        /\ \A i \in 1..Len(bind.events) :
                (bind.events[i].lookup = "ok" /\ bind.events[i].method \in TargetDescriptors)
                    => (bind.events[i].stored # "" /\ bind.events[i].new_address # "")
        /\ \A k \in Keys :
                (\E i \in 1..Len(bind.events) : bind.events[i].stored = k) => k \in installed

\* the traced event is for a method of the target table and its lookups succeeded
MatchesTarget(e) == e.lookup = "ok" /\ e.method \in TargetDescriptors

\* C16: a bind event writes a replacement address exactly when the method's
\* declaring type, name and shape are those of a target; any other event,
\* a failed lookup included, leaves the registry and the wrappers' stored
\* original pointers as they were.
C16_ReplacementIffTarget ==
    [][ (bind.observed /\ Len(bind'.events) = Len(bind.events) + 1) =>
            LET e == bind'.events[Len(bind'.events)]
            IN  /\ (e.new_address # "") <=> MatchesTarget(e)
                /\ ~MatchesTarget(e) =>
                        UNCHANGED <<g_original_functions, original_Net_connect0,
                                    original_Inet6_lookupAllHostAddr,
                                    original_Inet4_lookupAllHostAddr>> ]_vars

\* the invocation ran past the startup window: flag read true, policy type
\* read present, hasActiveConfiguration answered true, and it has a host to check
PastStartupWindow(l) ==
    /\ l.ready /\ l.contextClass # 0
    /\ \E i \in 1..Len(l.calls) :
            l.calls[i].method = "hasActiveConfiguration" /\ l.calls[i].result
    /\ IF IsDns(l) THEN l.hostname # NullStr ELSE l.remote

\* C17: past the startup window a resolve of a non-null hostname or a connect
\* to a non-null target reaches the original only if some checkConnection
\* call of the same invocation returned without a violation.
C17_FailOpenOnlyAtStartup ==
    \A t \in Threads :
        (Done(t) /\ PastStartupWindow(loc[t]) /\ loc[t].forwarded # <<>>)
            => \E i \in 1..Len(loc[t].calls) :
                    loc[t].calls[i].method = "checkConnection" /\ ~loc[t].calls[i].result

\* C18: a request whose host matches a blockedHosts pattern is blocked, for
\* either value of blockByDefault and any allowedHosts, also when the host
\* matches an allowedHosts pattern too.
C18_BlockListTakesPrecedence ==
    (url.decision # "none" /\ MatchesAny(url.config.blockedHosts, url.host))
        => url.decision = "blocked"

\* blocked by a wildcard pattern although allowed by name, default allow
C18_Witness ==
    /\ url.decision = "blocked"
    /\ url.host = <<"api", "example", "com">>
    /\ ~url.config.blockByDefault
    /\ url.config.blockedHosts = {<<"*", "example", "com">>}
    /\ url.config.allowedHosts = {<<"api", "example", "com">>}

\* the host name and its characters were both obtained by the invocation
HostnameKnown(l) ==
    /\ l.hostNameString # NullStr
    /\ \E i \in 1..Len(l.released) : l.released[i] = "hostname"

\* blocked by tryAllowConnection, not by the explicit-block branch
BlockedByChecks(l) ==
    /\ ConnectWasBlocked(l)
    /\ ~l.hostnameExplicitlyBlocked
    /\ ~l.ipExplicitlyBlocked

\* C19: a connect blocked because the checks were denied leaves pending the
\* violation of its last check: with a known host name H, the one for H and
\* the port (the IP check's violation was cleared); without one, the one for
\* the IP address and the port.
C19_LastViolationPropagates ==
    \A t \in Threads :
        (Done(t) /\ IsConnect(loc[t]) /\ BlockedByChecks(loc[t]))
            => /\ LastCall(loc[t]).method = "checkConnection"
               /\ LastCall(loc[t]).result
               /\ loc[t].exception =
                    Violation(IF HostnameKnown(loc[t]) THEN loc[t].hostNameString
                              ELSE loc[t].hostAddressString, loc[t].port)
               /\ LastCall(loc[t]).host = loc[t].exception.host
               /\ LastCall(loc[t]).port = loc[t].exception.port

\* both checks denied: the IP check, then the host name check, and the host
\* name's violation is pending
C19_Witness ==
    \E t \in Threads :
        /\ Done(t) /\ IsConnect(loc[t]) /\ BlockedByChecks(loc[t])
        /\ HostnameKnown(loc[t])
        /\ Len(loc[t].calls) >= 2
        /\ loc[t].calls[Len(loc[t].calls) - 1] =
              [method |-> "checkConnection", class |-> loc[t].innerContextClass,
               host |-> IpId, port |-> 443, caller |-> loc[t].callerString, result |-> TRUE]
        /\ loc[t].exception = Violation(HostId, 443)

\* the original pointer of the invocation's wrapper is non-null
OriginalPresent(l) ==
    IF IsDns(l) THEN l.original # 0 ELSE original_Net_connect0 # 0

\* the invocation read the readiness flag as false, or the bridge class as null
FailOpenAtEntry(l) == ~l.ready \/ l.contextClass = 0

\* one call of the original with the arguments as received, its result returned
ForwardedUnchanged(l) ==
    /\ Len(l.forwarded) = 1
    /\ l.forwarded[1].address = (IF IsDns(l) THEN l.original ELSE original_Net_connect0)
    /\ l.forwarded[1].args = (IF IsDns(l) THEN <<l.hostname>> ELSE <<l.remote, l.port>>)
    /\ l.result = l.forwarded[1].result
    /\ l.exception = NoException
    /\ l.calls = <<>>

\* C20: a DNS or connect invocation, with its original pointer present, that
\* finds the readiness flag false or the bridge class unregistered calls the
\* original exactly once with the arguments it received and returns that
\* call's result, with no policy call and nothing pending.
C20_StartupForwardsUnchanged ==
    \A t \in Threads :
        (Done(t) /\ OriginalPresent(loc[t]) /\ FailOpenAtEntry(loc[t]))
            => ForwardedUnchanged(loc[t])

\* a connect to a remote address found the flag set and the bridge unregistered
C20_Witness ==
    \E t \in Threads :
        /\ Done(t) /\ IsConnect(loc[t]) /\ loc[t].remote /\ loc[t].port = 443
        /\ loc[t].ready /\ loc[t].contextClass = 0 /\ g_vm_init_complete
        /\ ForwardedUnchanged(loc[t])

\* no global reference of the module is alive and every module-level handle is absent
ModuleHoldsNothing ==
    /\ classRefs = {}
    /\ stringRefs = {}
    /\ BridgeFullyCleared
    /\ g_caller_agent_string = NullStr
    /\ g_caller_dns_string = NullStr
    /\ ~g_jvm
    /\ ~g_jvmti

\* C21: the step in which the unload entry point returns leaves no global
\* reference held (policy type, both caller strings) and every module-level
\* handle absent (bridge fields, cached strings, runtime handles).
C21_UnloadReleasesEverything ==
    [][(~agent.unloaded /\ agent'.unloaded) => ModuleHoldsNothing']_vars

\* the invocation took the no-active-configuration path: its last policy
\* call is hasActiveConfiguration and the answer was false
NoConfigurationPath(l) ==
    /\ l.calls # <<>>
    /\ LastCall(l).method = "hasActiveConfiguration"
    /\ ~LastCall(l).result

\* C22: a DNS invocation on the no-active-configuration path calls the
\* original resolver only when the thread-readiness probe returned ready; when
\* the probe returned not-ready it returns null with an error pending (the
\* InternalError it raises, or the error of the failed lookup of that class)
\* and the original resolver is not called.
C22_DnsProbeBeforeForward ==
    \A t \in Threads :
        (Done(t) /\ IsDns(loc[t]) /\ NoConfigurationPath(loc[t]))
            => /\ loc[t].encoding_ready \in {"ready", "not_ready"}
               /\ loc[t].forwarded # <<>> => loc[t].encoding_ready = "ready"
               /\ loc[t].encoding_ready = "not_ready" =>
                    /\ loc[t].forwarded = <<>>
                    /\ loc[t].result = 0
                    /\ loc[t].exception \in {InternalError, OtherError}

\* the probe was tried and gave up; the wrapper raised InternalError
C22_Witness ==
    \E t \in Threads :
        /\ Done(t) /\ IsDns(loc[t]) /\ NoConfigurationPath(loc[t])
        /\ loc[t].encoding_ready = "not_ready"
        /\ loc[t].probes = EnsureMaxAttempts
        /\ loc[t].forwarded = <<>>
        /\ loc[t].exception = InternalError

\* C23: a connect invocation on the no-active-configuration path calls the
\* original connect only when the thread-readiness probe returned ready, and
\* after a failed probe it returns with an error pending and without
\* forwarding, as the DNS wrapper does.
C23_ConnectProbeBeforeForward ==
    \A t \in Threads :
        (Done(t) /\ IsConnect(loc[t]) /\ NoConfigurationPath(loc[t]))
            => /\ loc[t].forwarded # <<>> => loc[t].encoding_ready = "ready"
               /\ loc[t].encoding_ready = "not_ready" =>
                    /\ loc[t].forwarded = <<>>
                    /\ loc[t].exception \in {InternalError, OtherError}

\* C24: every execution of the VM-init callback makes at most max_attempts
\* probe attempts and returns, and when it has returned the readiness flag is
\* true, also when no caller string was created and no probe succeeded; the
\* flag changes only in the step after the string creation and the probe loop.
C24_VMInitTerminatesReady ==
    /\ [](vm.attempts <= VMInitMaxAttempts /\ vm.probes <= vm.attempts)
    /\ [](vm.pc \in {"strings", "probe", "setflag"} /\ vm.runs = 1 => ~g_vm_init_complete)
    /\ (vm.pc # "idle") ~> (vm.pc = "idle" /\ g_vm_init_complete)

\* no caller string, every attempt used, no probe made, the flag is true
C24_Witness ==
    /\ vm.pc = "check"
    /\ g_caller_agent_string = NullStr
    /\ ~vm.encoding_ready
    /\ vm.attempts = VMInitMaxAttempts
    /\ vm.probes = 0
    /\ g_vm_init_complete

\* the probe at attempt a of the invocation succeeded: the thread's encoding
\* is ready from attempt firstOk on
ProbeSucceeded(l, a) == a >= l.firstOk

\* C25: the thread-readiness probe makes at most max_attempts probes; it
\* returns ready exactly when one of the probes it made succeeded, and with
\* the cached caller string absent it returns not-ready without any probe.
C25_EnsureBoundedAndExact ==
    \A t \in Threads :
        loc[t].encoding_ready # "unprobed" =>
            /\ loc[t].probes <= EnsureMaxAttempts
            /\ (loc[t].encoding_ready = "ready") <=>
                    (\E a \in 0..(loc[t].probes - 1) : ProbeSucceeded(loc[t], a))
            /\ loc[t].test_string = NullStr =>
                    (loc[t].encoding_ready = "not_ready" /\ loc[t].probes = 0)

\* ready at the last permitted attempt, after max_attempts - 1 InternalErrors
C25_Witness ==
    \E t \in Threads :
        /\ loc[t].encoding_ready = "ready"
        /\ loc[t].probes = EnsureMaxAttempts
        /\ loc[t].failKind = "internal"
        /\ loc[t].test_string # NullStr

\* C26: a registry entry is write-once: once a pointer is stored under a key,
\* no later step, a second bind event for the same method included, changes
\* the pointer stored under that key.
C26_RegistryWriteOnce ==
    [][\A key \in DOMAIN g_original_functions :
            g_original_functions[key] # 0
                => g_original_functions'[key] = g_original_functions[key]]_vars

\* a resolve invocation that received a null hostname made no checkConnection
\* call and forwarded the null argument once, returning the original's result
NullHostnamePassedThrough(l) ==
    /\ \A i \in 1..Len(l.calls) : l.calls[i].method # "checkConnection"
    /\ Len(l.forwarded) = 1
    /\ l.forwarded[1].args = <<NullStr>>
    /\ l.result = l.forwarded[1].result
    /\ l.exception = NoException

\* C27 as stated: a resolve invocation with a null hostname never issues
\* checkConnection and is forwarded with the null argument unchanged, in
\* every readiness and configuration state.
C27_NullHostnameAlwaysForwarded ==
    \A t \in Threads :
        (Done(t) /\ IsDns(loc[t]) /\ loc[t].hostname = NullStr)
            => NullHostnamePassedThrough(loc[t])

\* C27 amended: a resolve invocation with a null hostname never issues
\* checkConnection, and it is forwarded with the null argument unchanged
\* unless the thread-readiness probe of the no-active-configuration path
\* returned not-ready, in which case nothing is forwarded.
C27_NullHostnameForwardedUnlessNotReady ==
    \A t \in Threads :
        (Done(t) /\ IsDns(loc[t]) /\ loc[t].hostname = NullStr)
            => IF loc[t].encoding_ready = "not_ready"
               THEN /\ loc[t].forwarded = <<>>
                    /\ \A i \in 1..Len(loc[t].calls) : loc[t].calls[i].method # "checkConnection"
               ELSE NullHostnamePassedThrough(loc[t])

\* a null hostname with an active configuration went to the original unchecked
C27_Witness ==
    \E t \in Threads :
        /\ Done(t) /\ IsDns(loc[t]) /\ loc[t].hostname = NullStr
        /\ loc[t].calls # <<>> /\ LastCall(loc[t]).method = "hasActiveConfiguration"
        /\ LastCall(loc[t]).result
        /\ NullHostnamePassedThrough(loc[t])

\* the VM-init callback is about to call into the runtime (NewStringUTF,
\* NewGlobalRef) or to run its probe-and-sleep loop
VMInitInRuntimeOrRetry == vm.pc \in {"strings", "probe"}

\* the registration is about to call into the runtime (NewGlobalRef, GetStaticMethodID)
RegistrationInRuntime == reg.pc \in {"newref", "check", "blocked", "active"}

\* C28: no lock is held across a call into the managed runtime or across a
\* retry loop: the strings lock is not held while the VM-init callback creates
\* its strings or probes and sleeps, and the bridge lock is not held while the
\* registration resolves the class reference and the method handles.
C28_NoLockAcrossRuntimeCalls ==
    /\ VMInitInRuntimeOrRetry => g_strings_mutex # "vm"
    /\ RegistrationInRuntime => g_context_mutex # "reg"

\* the invocation obtained the characters of the IP string
IpExtracted(l) ==
    /\ l.hostAddressString # NullStr
    /\ \/ "hostAddress" \in l.held
       \/ \E i \in 1..Len(l.released) : l.released[i] = "hostAddress"

\* C29: a connect invocation calls getHostName (the reverse lookup) only
\* after it read the readiness flag as true and the bridge class as
\* registered, got true from hasActiveConfiguration, and obtained the IP
\* string and its characters; when the IP extraction failed there is no
\* host name lookup.
C29_ReverseLookupOnlyAfterIp ==
    \A t \in Threads :
        loc[t].getHostNameCalled =>
            /\ IsConnect(loc[t])
            /\ loc[t].ready
            /\ loc[t].contextClass # 0
            /\ \E i \in 1..Len(loc[t].calls) :
                /\ loc[t].calls[i].method = "hasActiveConfiguration"
                /\ loc[t].calls[i].result
            /\ IpExtracted(loc[t])

\* the reverse lookup was made and gave no name, after the IP was extracted
C29_Witness ==
    \E t \in Threads :
        /\ loc[t].getHostNameCalled
        /\ loc[t].hostNameString = NullStr
        /\ IpExtracted(loc[t])
        /\ Done(t)

TimesReleased(l, h) == Cardinality({i \in 1..Len(l.released) : l.released[i] = h})

\* C31: when a wrapper invocation has returned it holds no native string
\* handle, it released no handle more than once, and at each call of the
\* original function every handle it had acquired was already released, on
\* the allow, block and error paths alike.
C31_HandlesReleasedOnce ==
    \A t \in Threads :
        /\ \A h \in {"hostname", "hostAddress"} :
                /\ TimesReleased(loc[t], h) <= 1
                /\ ~(h \in loc[t].held /\ TimesReleased(loc[t], h) > 0)
        /\ \A i \in 1..Len(loc[t].forwarded) : loc[t].forwarded[i].held = {}
        /\ Done(t) => loc[t].held = {}

\* a blocked connect released both handles and called nothing
C31_Witness ==
    \E t \in Threads :
        /\ Done(t) /\ ConnectWasBlocked(loc[t])
        /\ loc[t].released = <<"hostname", "hostAddress">>
        /\ loc[t].held = {}

\* the invocation read the bridge class as present and the
\* hasActiveConfiguration handle as absent
HandleUnavailable(l) == l.ready /\ l.contextClass # 0 /\ l.hasActiveConfigMethod = 0

\* C32: a wrapper invocation that finds the bridge registered and the
\* hasActiveConfiguration handle unavailable does not forward unchecked: for
\* a resolve with a hostname and for a connect with a remote address, a
\* checkConnection call precedes any call of the original, in both wrappers.
C32_UnavailableHandleStillChecks ==
    \A t \in Threads :
        ( /\ Done(t) /\ HandleUnavailable(loc[t])
          /\ loc[t].forwarded # <<>>
          /\ IF IsDns(loc[t]) THEN loc[t].hostname # NullStr ELSE loc[t].remote )
            => \E i \in 1..Len(loc[t].calls) : loc[t].calls[i].method = "checkConnection"

\* the state the wrappers only read: the registry and the installed
\* pointers, the bridge cache, the caller strings and the readiness flag
StoredState == <<registryVars, classVars, methodVars, stringVars, g_vm_init_complete>>

\* the locals of an invocation that has taken no decision yet
NoDecisionYet(l) ==
    /\ l.calls = <<>> /\ l.forwarded = <<>>
    /\ ~l.connectionBlocked /\ ~l.hostnameExplicitlyBlocked /\ ~l.ipExplicitlyBlocked
    /\ l.exception = NoException

\* C33: a step of a wrapper invocation leaves the registry, the bridge cache,
\* the caller strings and the readiness flag as they were, and an invocation
\* starts with no decision, policy answer or exception carried over from the
\* invocation that ran before it on the same thread.
C33_WrapperChangesNoStoredState ==
    [][\A t \in Threads :
            pc'[t] # pc[t] =>
                /\ UNCHANGED StoredState
                /\ pc[t] \in {"idle", "done"} => NoDecisionYet(loc'[t])]_vars

\* a connect was blocked by the policy and the bridge is as registered
C33_Witness ==
    \E t \in Threads :
        /\ Done(t) /\ ConnectWasBlocked(loc[t])
        /\ loc[t].calls # <<>>
        /\ g_vm_init_complete
        /\ g_network_blocker_context_class = loc[t].contextClass
        /\ g_check_connection_method = loc[t].checkConnectionMethod

\* the arguments of one checkConnection call are those of the wrapper that
\* made it: DNS passes the hostname, port -1 and "Native-DNS"; a connect
\* passes the remote port and "Native-Agent"
CheckConnectionArguments(l, c) ==
    IF IsDns(l)
    THEN c.host = l.hostname /\ c.port = DnsPort /\ c.caller = "Native-DNS"
    ELSE c.port = l.port /\ c.caller = "Native-Agent"

\* C34: every checkConnection call of the DNS wrapper passes the requested
\* hostname, port -1 and the DNS caller constant, and every checkConnection
\* call of the connect wrapper passes the remote port and the agent caller
\* constant; the caller argument is never absent.
C34_CheckConnectionArguments ==
    \A t \in Threads : \A i \in 1..Len(loc[t].calls) :
        loc[t].calls[i].method = "checkConnection"
            => CheckConnectionArguments(loc[t], loc[t].calls[i])

(* ---- bind events delivered on several threads ---- *)
\* the addresses delivered so far, and the callbacks that have stored their
\* address and not yet installed it
ConcurrentBinds == [observed |-> FALSE, events |-> <<>>, pending |-> {}]

\* the agent loaded, no bind event delivered yet
InitBindConcurrent ==
    /\ g_jvm = TRUE /\ g_jvmti = TRUE
    /\ url = NoRequest
    /\ agent = InitializeJVMTI(5)
    /\ g_original_functions = [k \in Keys |-> 0]
    /\ original_Net_connect0 = 0
    /\ original_Inet6_lookupAllHostAddr = 0
    /\ original_Inet4_lookupAllHostAddr = 0
    /\ installed = {}
    /\ binds = 0
    /\ bind = ConcurrentBinds
    /\ g_network_blocker_context_class = 0
    /\ g_check_connection_method = 0
    /\ g_is_explicitly_blocked_method = 0
    /\ g_has_active_configuration_method = 0
    /\ g_caller_agent_string = NullStr /\ g_caller_dns_string = NullStr
    /\ g_vm_init_complete = FALSE
    /\ g_context_mutex = "free" /\ g_strings_mutex = "free"
    /\ classRefs = {} /\ nextRef = 1
    /\ stringRefs = {}
    /\ reg = IdleReg
    /\ vm = IdleVm
    /\ pc = [t \in Threads |-> "idle"]
    /\ loc = [t \in Threads |-> IdleLoc]

\* the callback up to and including StoreOriginalFunction(key, address),
\* which holds g_functions_mutex for the one assignment
NativeMethodBindCallback_Store ==
    /\ agent.callbacks /\ agent.bindEvents
    /\ ~agent.unloaded
    /\ binds < MaxBind
    /\ binds' = binds + 1
    /\ \E m \in Methods, address \in Addresses :
        LET key == TargetKey(m[1], m[2])
        IN  IF key = ""
            THEN UNCHANGED <<g_original_functions, bind>>
            ELSE /\ g_original_functions' = StoreOriginalFunction(g_original_functions, key, address)
                 /\ bind' = [bind EXCEPT
                                !.events = Append(@, [key |-> key, address |-> address]),
                                !.pending = IF key \in WrappedKeys
                                            THEN @ \cup {[id |-> binds', key |-> key,
                                                          address |-> address]}
                                            ELSE @]
    /\ UNCHANGED <<original_Net_connect0, original_Inet6_lookupAllHostAddr,
                   original_Inet4_lookupAllHostAddr, installed,
                   agentVars, classVars, methodVars, stringVars, g_vm_init_complete,
                   g_context_mutex, g_strings_mutex, reg, vm, wrapperVars>>

\* the rest of the callback: Install...Wrapper(address) writes the wrapper's
\* static pointer, under no lock, and the entry point goes to the runtime;
\* the first variant hands out the entry point and leaves the pointer
NativeMethodBindCallback_InstallEntryOnly ==
    /\ \E p \in bind.pending :
        /\ installed' = installed \cup {p.key}
        /\ bind' = [bind EXCEPT !.pending = @ \ {p}]
    /\ UNCHANGED <<g_original_functions, binds, original_Net_connect0,
                   original_Inet6_lookupAllHostAddr, original_Inet4_lookupAllHostAddr,
                   agentVars, classVars, methodVars, stringVars, g_vm_init_complete,
                   g_context_mutex, g_strings_mutex, reg, vm, wrapperVars>>
NativeMethodBindCallback_Install ==
    /\ \E p \in bind.pending :
        /\ original_Net_connect0' =
               IF p.key = KeyNetConnect0 THEN p.address ELSE original_Net_connect0
        /\ original_Inet6_lookupAllHostAddr' =
               IF p.key = KeyInet6 THEN p.address ELSE original_Inet6_lookupAllHostAddr
        /\ original_Inet4_lookupAllHostAddr' =
               IF p.key = KeyInet4 THEN p.address ELSE original_Inet4_lookupAllHostAddr
        /\ installed' = installed \cup {p.key}
        /\ bind' = [bind EXCEPT !.pending = @ \ {p}]
    /\ UNCHANGED <<g_original_functions, binds,
                   agentVars, classVars, methodVars, stringVars, g_vm_init_complete,
                   g_context_mutex, g_strings_mutex, reg, vm, wrapperVars>>

NextBindConcurrent ==
    \/ NativeMethodBindCallback_Store
    \/ NativeMethodBindCallback_Install

SpecBindConcurrent == InitBindConcurrent /\ [][NextBindConcurrent]_vars

\* the static pointer of the wrapper installed for a key
OriginalPointer(key) ==
    IF key = KeyNetConnect0 THEN original_Net_connect0
    ELSE IF key = KeyInet6 THEN original_Inet6_lookupAllHostAddr
    ELSE original_Inet4_lookupAllHostAddr

\* C35: once every delivered bind callback has returned, whatever their
\* interleaving, the original pointer of each installed wrapper equals the
\* registry entry under the wrapper's key.
C35_PointerEqualsRegistry ==
    bind.pending = {} =>
        \A key \in installed :
            OriginalPointer(key) = GetOriginalFunction(g_original_functions, key)

\* C36: an invocation that read the policy-type handle as present reads the
\* hasActiveConfiguration handle, which both wrappers fetch next, as present
\* too, whatever registration ran in between.
C36_NoTornBridge ==
    \A t \in Threads :
        (Done(t) /\ loc[t].ready /\ loc[t].contextClass # 0)
            => loc[t].hasActiveConfigMethod # 0

\* C37: whenever tryAllowConnection returned 'blocked' a violation is
\* pending, so the connect wrapper returns the error and never calls the
\* original; this includes the path that repeats the IP check to raise the
\* violation again.
C37_BlockedMeansViolationPending ==
    \A t \in Threads :
        ( /\ Done(t) /\ loc[t].kind = KeyNetConnect0
          /\ loc[t].connectionBlocked
          /\ ~loc[t].hostnameExplicitlyBlocked /\ ~loc[t].ipExplicitlyBlocked )
            => /\ loc[t].exception.type # "none"
               /\ loc[t].forwarded = <<>>

\* the steps VMInitCallback takes while it holds g_strings_mutex, and those
\* registerWithAgent takes while it holds g_context_mutex
VMInitHolderStep ==
    \/ VMInitCallback_Strings
    \/ VMInitCallback_Probe
    \/ VMInitCallback_SetFlag
    \/ VMInitCallback_Return
RegistrationHolderStep ==
    \/ registerWithAgent_NewGlobalRef
    \/ registerWithAgent_CheckConnection
    \/ registerWithAgent_IsExplicitlyBlocked
    \/ registerWithAgent_HasActiveConfiguration

\* the positions at which a wrapper waits for g_context_mutex or for
\* g_strings_mutex inside an accessor
WaitsForLock(t) ==
    \/ g_context_mutex # "free" /\ pc[t] \in {"dns_class", "con_class", "dns_hasactive",
                                              "con_hasactive", "dns_checkmethod",
                                              "con_class2", "con_checkmethod",
                                              "con_blockedmethod"}
    \/ g_strings_mutex # "free" /\ pc[t] \in {"dns_caller", "con_caller"}

DeliveredAddresses(key) ==
    {bind.events[i].address : i \in {j \in 1..Len(bind.events) : bind.events[j].key = key}}

\* C39: a wrapper the runtime can invoke has had its original pointer set to
\* an address delivered with a bind event for its own method, so the pointer
\* is present whenever the events delivered real (non-null) addresses,
\* whatever the interleaving of the callbacks.
C39_InstalledWrapperHasOriginal ==
    \A key \in installed :
        /\ OriginalPointer(key) \in DeliveredAddresses(key)
        /\ 0 \notin DeliveredAddresses(key) => OriginalPointer(key) # 0

\* the resolver was bound twice with different addresses; both callbacks
\* have returned and the wrapper's pointer is the first address
C39_Witness ==
    /\ KeyInet6 \in installed
    /\ bind.pending = {}
    /\ DeliveredAddresses(KeyInet6) = {1, 2}
    /\ bind.events[1].address = 1
    /\ original_Inet6_lookupAllHostAddr = 1

\* the policy calls a step of thread t makes
NewCalls(t) ==
    IF Len(loc'[t].calls) > Len(loc[t].calls)
    THEN {loc'[t].calls[i] : i \in (Len(loc[t].calls) + 1)..Len(loc'[t].calls)}
    ELSE {}

\* C40: every policy call of a wrapper passes a policy-type handle whose
\* global reference is alive at the time of the call; an invocation never
\* uses the handle after the unload released it.
C40_NoUseAfterUnload ==
    [][\A t \in Threads : \A c \in NewCalls(t) : c.class \in classRefs]_vars
====
